---- MODULE Spec2Model ----
(***************************************************************************)
(* A model of the Hattrick scraper (istvans/ht): the login session of      *)
(* src/hattrick.py (Hattrick.__enter__ / __exit__ / _open_link) and the    *)
(* line-oriented extractor (FindState, _find_after_a_start_match).         *)
(*                                                                         *)
(* Python values are modelled as follows.  An optional value is a sequence *)
(* of length at most one: None is << >> and a value v is << v >>.  A text  *)
(* (page body) is the set of the patterns that re.search finds in it.  A   *)
(* dict is a function over its keys.  A raised exception is the name of    *)
(* its class; NoExc means that the call returned normally.                 *)
(***************************************************************************)
EXTENDS Integers, Sequences, FiniteSets, TLC

VARIABLES
    pc,             \* position of the run: "new", "body" (in the with-block),
                    \* "exiting", "done" (__exit__ was called), "failed" (__enter__ raised)
    session,        \* Hattrick.session: None, or the state of the requests.Session
    server_url,     \* Hattrick.server_url
    server_id,      \* Hattrick.server_id
    team,           \* Hattrick.team
    language,       \* Hattrick.language
    logged_in,      \* Hattrick.logged_in
    LOGIN_FORM,     \* Hattrick.LOGIN_FORM, the class-level dict
    main_page,      \* the response to the landing-page GET of __enter__
    response,       \* the local `response` of __enter__ (answer to the login POST)
    exc,            \* the exception that left the last operation, or NoExc
    body_requests,  \* number of pages the with-body has downloaded
    log,            \* what the run did to the outside world, in order
    pass,           \* extractor: which scan loop runs ("tsi" or "team")
    doc,            \* extractor: the lines of the page (iter_lines)
    pos,            \* extractor: number of lines the loop has consumed
    scanning,       \* extractor: TRUE while the for loop has not ended
    states,         \* extractor: the FindState objects of the pass
    result,         \* extractor: outcome of each get_int_or_raise... call
    call,           \* single call: the function called and its arguments
    ret             \* single call: what the call returned or raised, None before

hattrick_vars == <<pc, session, server_url, server_id, team, language, logged_in,
                   LOGIN_FORM, main_page, response, exc, body_requests, log>>
find_vars == <<pass, doc, pos, scanning, states, result>>
call_vars == <<call, ret>>
vars == <<pc, session, server_url, server_id, team, language, logged_in,
          LOGIN_FORM, main_page, response, exc, body_requests, log,
          pass, doc, pos, scanning, states, result, call, ret>>

-----------------------------------------------------------------------------
(* Values *)

None == << >>
Some(v) == << v >>
NoExc == "NoExc"

\* bound: how many pages the with-body downloads at most
MaxBodyRequests == 2
\* bound: how many lines a scanned page has at most
MaxLines == 3

\* every exception class but KeyboardInterrupt derives from Exception
IsException(e) == e \notin {NoExc, "KeyboardInterrupt"}

-----------------------------------------------------------------------------
(* Class constants of Hattrick *)

MAIN_PAGE == "https://www.hattrick.org/en/"
LOGIN_PAGE == "https://www.hattrick.org/en/Startpage3.aspx"
EVENT_VALIDATION_KEY == "__EVENTVALIDATION"
VIEW_STATE_KEY == "__VIEWSTATE"
VIEW_STATE_GENERATOR_KEY == "__VIEWSTATEGENERATOR"
PASSWORD_FIELD == "ctl00$CPContent$ucLogin$txtPassword"
LOGOUT_LINK == "?action=logout"
PLAYERS_LINK == "Club/Players"

DynamicKeys == {EVENT_VALIDATION_KEY, VIEW_STATE_KEY, VIEW_STATE_GENERATOR_KEY}

\* the values of the dynamic hidden fields written into the source
HardCodedHidden ==
    (VIEW_STATE_KEY :> "/wEPDwUJNDQyOTQ2ODUyD2QW...")
    @@ (VIEW_STATE_GENERATOR_KEY :> "98A44CFC")
    @@ (EVENT_VALIDATION_KEY :> "/wEdADz0XfECtiFlPyIfLBnk...")

\* values a later rendering of the landing page serves for the same fields
FreshHidden ==
    (VIEW_STATE_KEY :> "/wEPDwUKLTserved")
    @@ (VIEW_STATE_GENERATOR_KEY :> "C2EE9ABB")
    @@ (EVENT_VALIDATION_KEY :> "/wEdAAserved")

LOGIN_FORM_initial ==
    ("ctl00_sm_HiddenField" :> "TOKEN")
    @@ ("__EVENTTARGET" :> "ctl00$CPContent$ucLogin$butLogin")
    @@ HardCodedHidden
    @@ ("ctl00$CPHeader$ucMenu$ucLanguages$ddlLanguages" :> "2")
    @@ ("loginname" :> "{{signup.loginname}}")
    @@ ("password" :> "{{signup.password}}")
    @@ ("ctl00$CPContent$ucLogin$txtUserName" :> "stevensson")

SUPPORTED_LANGUAGES == <<"hungarian", "english">>

LanguageDependentText(hungarian, english) ==
    ("hungarian" :> hungarian) @@ ("english" :> english)

DICTIONARY ==
    ("age" :> LanguageDependentText(Some("eves es napos"), None))
    @@ ("nt" :> LanguageDependentText(Some("valogatott csapatanak is tagja!"), None))
    @@ ("nt_prospect" :> LanguageDependentText(Some("nemzeti csapatanak jeloltje"), None))
    @@ ("app_error" :> LanguageDependentText(Some("Alkalmazashiba"), None))
    @@ ("avg_price_block" :> LanguageDependentText(Some(">Atlagertek<"), None))
    @@ ("total" :> LanguageDependentText(Some("Osszesen:"), None))
    @@ ("board_reserves" :> LanguageDependentText(Some("Az igazgatosag tartaleka:"), None))

\* the names an instance of Hattrick resolves (its methods and fields)
HattrickAttributes ==
    {"currency", "session", "server_url", "server_id", "team", "language", "logged_in",
     "_parse_team_id", "_parse_team_name_by_id", "_parse_page_language", "_open_link",
     "__enter__", "__exit__", "download_player_list_page", "_parse_player_age",
     "_parse_player_tsi", "_parse_national_team_player_status",
     "_find_value_on_page_for_key", "_update_form_with_dynamic_value",
     "_load_more_transfers", "_download_sell_price_etimation_page",
     "_parse_player_sell_base_price", "_download_player_info_into",
     "download_player_by_name", "_download_team_finance_page", "download_team"}

\* the names an instance of FindState resolves
FindStateAttributes ==
    {"lets_find", "found_value", "found", "get_int_or_raise_and_try_dumping_page_error"}

-----------------------------------------------------------------------------
(* What the site can answer *)

LOGIN_FAILURE_MARKER == "login-failure marker"

Urls == {"https://www97.hattrick.org/MyHattrick/",
         "https://www.hattrick.org/en/Startpage3.aspx?login=failed"}

Cookies == {"ASP.NET_SessionId=x1; currentTeamId=123456", "ASP.NET_SessionId=x1"}

\* a page: HTTP status, final URL, the Cookie header of its request, the
\* title of the team link, the lang attribute, the hidden fields it serves
\* and the patterns found in its body
Pages(urls, cookies, titles, langs, hiddens, texts) ==
    [ok : BOOLEAN, url : urls, cookie : cookies, team_title : titles,
     lang : langs, hidden : hiddens, text : texts]

LandingPages ==
    Pages({MAIN_PAGE}, {"ASP.NET_SessionId=x1"}, {None}, {Some("en")},
          {HardCodedHidden, FreshHidden}, {{}})

LoginResponses ==
    Pages(Urls, Cookies, {None, Some("Kispest FC")},
          {None, Some("hu"), Some("en"), Some("de")}, {FreshHidden},
          SUBSET {"Alkalmazashiba", LOGIN_FAILURE_MARKER})

InnerPages ==
    Pages({"https://www97.hattrick.org/"}, {"ASP.NET_SessionId=x1; currentTeamId=123456"},
          {Some("Kispest FC")}, {Some("hu")}, {FreshHidden},
          SUBSET {"Alkalmazashiba"})

\* getpass(): the password typed, or None when the prompt is interrupted
Prompts == {None, Some("secret")}

-----------------------------------------------------------------------------
(* LanguageDependentText.translate_to *)

\* what dir() lists for a LanguageDependentText besides the language fields
\* set by __init__ (of the names the class inherits from object, three)
LanguageDependentTextClassNames ==
    {"SUPPORTED_LANGUAGES", "translate_to", "__init__", "__class__", "__dict__", "__doc__"}

\* name.startswith('__')
StartsWithDunder(name) == name \in {"__init__", "__class__", "__dict__", "__doc__"}

dir(text_of) == DOMAIN text_of \cup LanguageDependentTextClassNames

\* getattr(self, name) for a name of dir(self)
getattr(text_of, name) ==
    IF name \in DOMAIN text_of THEN text_of[name] ELSE Some("<attribute " \o name \o ">")

\* the keys of the dict that translate_to puts into its error
available_definitions(text_of) ==
    {name \in dir(text_of) : ~StartsWithDunder(name) /\ getattr(text_of, name) # None}

translate_to(text_of, lang) ==
    IF lang = None THEN [exc |-> "TypeError", ret |-> None, available |-> {}]
    ELSE IF lang[1] \notin dir(text_of)
    THEN [exc |-> "AttributeError", ret |-> None, available |-> {}]
    ELSE IF getattr(text_of, lang[1]) = None
    THEN [exc |-> "NoDefinitionInThisLanguageError", ret |-> None,
          available |-> available_definitions(text_of)]
    ELSE [exc |-> NoExc, ret |-> getattr(text_of, lang[1]), available |-> {}]

\* self.DICTIONARY[key].translate_to(language)
resolve(dictionary, key, lang) ==
    IF key \notin DOMAIN dictionary
    THEN [exc |-> "KeyError", ret |-> None, available |-> {}]
    ELSE translate_to(dictionary[key], lang)

\* the module-level function: it always raises RuntimeError
raise_and_try_dumping_page_error == "RuntimeError(page error)"

\* _dump_a_page_to_file(page, file_name), where opening or writing the file
\* ends as `dump` says
dump_a_page_to_file(file_name, dump) ==
    [exc |-> dump, written |-> IF dump = NoExc THEN {file_name} ELSE {}]

\* the message and the exception of the module-level function; a message is
\* the sequence of the pieces the formats put together
RaiseOutcome(e, message, written) == [exc |-> e, message |-> message, written |-> written]

\* variant: only io errors of the dump are caught
raise_and_try_dumping_page_error_of_io(base_error_message, dump_suffix, dump, regex) ==
    LET crashdump == <<"crashdump.", dump_suffix, ".html">>
        dumped == dump_a_page_to_file(crashdump, dump)
        saved_page_file == IF dumped.exc = NoExc THEN Some(crashdump) ELSE None
        with_regex == IF regex # None
                      THEN <<base_error_message, " regex: '", regex[1], "'">>
                      ELSE <<base_error_message>>
        error_message == IF saved_page_file # None
                         THEN with_regex \o <<" this page dump might help: '">>
                                         \o saved_page_file[1] \o <<"'">>
                         ELSE with_regex
    IN  IF dumped.exc \notin {NoExc, "OSError"}
        THEN RaiseOutcome(dumped.exc, << >>, dumped.written)
        ELSE RaiseOutcome("RuntimeError", error_message, dumped.written)

raise_and_try_dumping_page_error_of(base_error_message, dump_suffix, dump, regex) ==
    LET crashdump == <<"crashdump.", dump_suffix, ".html">>
        dumped == dump_a_page_to_file(crashdump, dump)
        saved_page_file == IF dumped.exc = NoExc THEN Some(crashdump) ELSE None
        with_regex == IF regex # None
                      THEN <<base_error_message, " regex: '", regex[1], "'">>
                      ELSE <<base_error_message>>
        error_message == IF saved_page_file # None
                         THEN with_regex \o <<" this page dump might help: '">>
                                         \o saved_page_file[1] \o <<"'">>
                         ELSE with_regex
    IN  RaiseOutcome("RuntimeError", error_message, dumped.written)

\* self._raise_and_try_dumping_page_error(...) on an object with these attributes
call_raise_and_try_dumping_page_error_on(attributes) ==
    IF "_raise_and_try_dumping_page_error" \in attributes
    THEN raise_and_try_dumping_page_error
    ELSE "AttributeError"

-----------------------------------------------------------------------------
(* Hattrick._open_link *)

Request(method, base, link, data) ==
    [ev |-> "request", method |-> method, base |-> base, link |-> link, data |-> data]

Event(name) ==
    [ev |-> name, method |-> "", base |-> None, link |-> "", data |-> None]

\* what _open_link gives: the log with its request, the exception or the
\* response, and whether the app_error pattern was resolved (line 284)
OpenLinkOutcome(lg, e, r, consulted) ==
    [log |-> lg, exc |-> e, ret |-> r, consulted |-> consulted]

\* variant: the application-error check does not depend on logged_in
open_link_checking_always(self, lg, link, use_server_url, method, data, page) ==
    IF self.session = None
    THEN OpenLinkOutcome(lg, "AttributeError", None, FALSE)
    ELSE LET base == IF use_server_url THEN self.server_url ELSE None
             lg1 == Append(lg, Request(method, base, link, data))
         IN  IF ~page.ok
             THEN OpenLinkOutcome(lg1, "HTTPError", None, FALSE)
             ELSE LET app_error_pattern == resolve(DICTIONARY, "app_error", self.language)
                  IN  IF app_error_pattern.exc # NoExc
                      THEN OpenLinkOutcome(lg1, app_error_pattern.exc, None, TRUE)
                      ELSE IF app_error_pattern.ret[1] \in page.text
                      THEN OpenLinkOutcome(lg1,
                               call_raise_and_try_dumping_page_error_on(HattrickAttributes),
                               None, TRUE)
                      ELSE OpenLinkOutcome(lg1, NoExc, Some(page), TRUE)

\* variant: the application-error check comes before raise_for_status
open_link_checking_first(self, lg, link, use_server_url, method, data, page) ==
    IF self.session = None
    THEN OpenLinkOutcome(lg, "AttributeError", None, FALSE)
    ELSE LET base == IF use_server_url THEN self.server_url ELSE None
             lg1 == Append(lg, Request(method, base, link, data))
         IN  IF self.logged_in
             THEN LET app_error_pattern == resolve(DICTIONARY, "app_error", self.language)
                  IN  IF app_error_pattern.exc # NoExc
                      THEN OpenLinkOutcome(lg1, app_error_pattern.exc, None, TRUE)
                      ELSE IF app_error_pattern.ret[1] \in page.text
                      THEN OpenLinkOutcome(lg1,
                               call_raise_and_try_dumping_page_error_on(HattrickAttributes),
                               None, TRUE)
                      ELSE IF ~page.ok
                      THEN OpenLinkOutcome(lg1, "HTTPError", None, TRUE)
                      ELSE OpenLinkOutcome(lg1, NoExc, Some(page), TRUE)
             ELSE IF ~page.ok
             THEN OpenLinkOutcome(lg1, "HTTPError", None, FALSE)
             ELSE OpenLinkOutcome(lg1, NoExc, Some(page), FALSE)

open_link(self, lg, link, use_server_url, method, data, page) ==
    IF self.session = None
    THEN OpenLinkOutcome(lg, "AttributeError", None, FALSE)
    ELSE LET base == IF use_server_url THEN self.server_url ELSE None
             lg1 == Append(lg, Request(method, base, link, data))
         IN  IF ~page.ok
             THEN OpenLinkOutcome(lg1, "HTTPError", None, FALSE)
             ELSE IF self.logged_in
             THEN LET app_error_pattern == resolve(DICTIONARY, "app_error", self.language)
                  IN  IF app_error_pattern.exc # NoExc
                      THEN OpenLinkOutcome(lg1, app_error_pattern.exc, None, TRUE)
                      ELSE IF app_error_pattern.ret[1] \in page.text
                      THEN OpenLinkOutcome(lg1,
                               call_raise_and_try_dumping_page_error_on(HattrickAttributes),
                               None, TRUE)
                      ELSE OpenLinkOutcome(lg1, NoExc, Some(page), TRUE)
             ELSE OpenLinkOutcome(lg1, NoExc, Some(page), FALSE)

-----------------------------------------------------------------------------
(* The parsers __enter__ uses *)

\* re.search(r"^(?P<server_url>.*www(?P<server_id>\d+)\.hattrick\.org)", url)
match_server(url) ==
    IF url = "https://www97.hattrick.org/MyHattrick/"
    THEN Some([server_url |-> "https://www97.hattrick.org", server_id |-> 97])
    ELSE None

\* re.search(r"currentTeamId=(?P<team_id>\d+)", cookie)
parse_team_id(page) ==
    IF page.cookie = "ASP.NET_SessionId=x1; currentTeamId=123456"
    THEN [exc |-> NoExc, ret |-> Some(123456)]
    ELSE [exc |-> "RuntimeError(Unexpected Cookie)", ret |-> None]

parse_team_name_by_id(page, team_id) ==
    IF page.team_title # None
    THEN [exc |-> NoExc, ret |-> page.team_title]
    ELSE [exc |-> call_raise_and_try_dumping_page_error_on(HattrickAttributes), ret |-> None]

page_language_pattern_to_script_language_mapping ==
    ("hu" :> SUPPORTED_LANGUAGES[1]) @@ ("en" :> SUPPORTED_LANGUAGES[2])

\* variant: a language code that is not recognised falls back to English
parse_page_language_with_fallback(page) ==
    IF page.lang # None
    THEN IF page.lang[1] \notin DOMAIN page_language_pattern_to_script_language_mapping
         THEN [exc |-> NoExc, ret |-> Some(SUPPORTED_LANGUAGES[2])]
         ELSE [exc |-> NoExc,
               ret |-> Some(page_language_pattern_to_script_language_mapping[page.lang[1]])]
    ELSE [exc |-> call_raise_and_try_dumping_page_error_on(HattrickAttributes), ret |-> None]

parse_page_language(page) ==
    IF page.lang # None
    THEN IF page.lang[1] \notin DOMAIN page_language_pattern_to_script_language_mapping
         THEN [exc |-> "RuntimeError(Failed to detect the page's language from)", ret |-> None]
         ELSE [exc |-> NoExc,
               ret |-> Some(page_language_pattern_to_script_language_mapping[page.lang[1]])]
    ELSE [exc |-> call_raise_and_try_dumping_page_error_on(HattrickAttributes), ret |-> None]

Finance(total, board_reserves) == [total |-> total, board_reserves |-> board_reserves]

Team(team_id, name) == [id |-> team_id, name |-> name, finance |-> Finance(None, None)]

-----------------------------------------------------------------------------
(* Hattrick.__exit__ and Hattrick.__enter__ *)

\* the fields of the Hattrick object
Self ==
    [session |-> session, server_url |-> server_url, server_id |-> server_id,
     team |-> team, language |-> language, logged_in |-> logged_in]

\* variant: __exit__ only closes the transport session
exit_without_logout(self, lg, logout_page) ==
    IF self.session # None
    THEN [self |-> [self EXCEPT !.session = Some("closed"), !.logged_in = FALSE],
          log |-> Append(lg, Event("session.__exit__")),
          exc |-> NoExc]
    ELSE [self |-> [self EXCEPT !.logged_in = FALSE], log |-> lg, exc |-> NoExc]

\* variant: __exit__ leaves logged_in as it is
exit_keeping_logged_in(self, lg, logout_page) ==
    LET out == IF self.logged_in
               THEN open_link(self, lg, LOGOUT_LINK, TRUE, "get", None, logout_page)
               ELSE [log |-> lg, exc |-> NoExc, ret |-> None]
    IN  IF out.exc # NoExc
        THEN [self |-> self, log |-> out.log, exc |-> out.exc]
        ELSE LET lg1 == IF self.logged_in
                        THEN Append(out.log, Event("print We're out! :)"))
                        ELSE out.log
             IN  IF self.session # None
                 THEN [self |-> [self EXCEPT !.session = Some("closed")],
                       log |-> Append(lg1, Event("session.__exit__")),
                       exc |-> NoExc]
                 ELSE [self |-> self, log |-> lg1, exc |-> NoExc]

\* variant: __exit__ logs out whenever a transport session exists
exit_logging_out_always(self, lg, logout_page) ==
    LET out == IF self.session # None
               THEN open_link(self, lg, LOGOUT_LINK, TRUE, "get", None, logout_page)
               ELSE [log |-> lg, exc |-> NoExc, ret |-> None]
    IN  IF out.exc # NoExc
        THEN [self |-> self, log |-> out.log, exc |-> out.exc]
        ELSE LET self1 == [self EXCEPT !.logged_in = FALSE]
                 lg1 == IF self.session # None
                        THEN Append(out.log, Event("print We're out! :)"))
                        ELSE out.log
             IN  IF self1.session # None
                 THEN [self |-> [self1 EXCEPT !.session = Some("closed")],
                       log |-> Append(lg1, Event("session.__exit__")),
                       exc |-> NoExc]
                 ELSE [self |-> self1, log |-> lg1, exc |-> NoExc]

\* __exit__: the logout is answered by `logout_page`
exit(self, lg, logout_page) ==
    LET out == IF self.logged_in
               THEN open_link(self, lg, LOGOUT_LINK, TRUE, "get", None, logout_page)
               ELSE [log |-> lg, exc |-> NoExc, ret |-> None]
    IN  IF out.exc # NoExc
        THEN [self |-> self, log |-> out.log, exc |-> out.exc]
        ELSE LET self1 == [self EXCEPT !.logged_in = FALSE]
                 lg1 == IF self.logged_in
                        THEN Append(out.log, Event("print We're out! :)"))
                        ELSE out.log
             IN  IF self1.session # None
                 THEN [self |-> [self1 EXCEPT !.session = Some("closed")],
                       log |-> Append(lg1, Event("session.__exit__")),
                       exc |-> NoExc]
                 ELSE [self |-> self1, log |-> lg1, exc |-> NoExc]

EnterOutcome(self, form, lg, main, resp, e) ==
    [self |-> self, form |-> form, log |-> lg, main_page |-> main, response |-> resp,
     exc |-> e]

\* variant: logged_in is set before the language is parsed
enter_parse_logged_in_early(self, form, lg, main, page) ==
    LET match == match_server(page.url)
    IN  IF match = None
        THEN EnterOutcome(self, form, lg, main, Some(page), "RuntimeError(Unexpected URL)")
        ELSE
        LET self1 == [self EXCEPT !.server_url = Some(match[1].server_url),
                                  !.server_id = Some(match[1].server_id)]
            team_id == parse_team_id(page)
        IN  IF team_id.exc # NoExc
            THEN EnterOutcome(self1, form, lg, main, Some(page), team_id.exc)
            ELSE
            LET team_name == parse_team_name_by_id(page, team_id.ret[1])
            IN  IF team_name.exc # NoExc
                THEN EnterOutcome(self1, form, lg, main, Some(page), team_name.exc)
                ELSE
                LET self2 == [self1 EXCEPT !.team = Some(Team(team_id.ret[1], team_name.ret[1])),
                                           !.logged_in = TRUE]
                    lang == parse_page_language(page)
                IN  IF lang.exc # NoExc
                    THEN EnterOutcome(self2, form, lg, main, Some(page), lang.exc)
                    ELSE EnterOutcome([self2 EXCEPT !.language = lang.ret],
                                      form, Append(lg, Event("print We're in! :)")),
                                      main, Some(page), NoExc)

\* variant: a login response from an unexpected URL is taken as a login
enter_parse_accepting_any_url(self, form, lg, main, page) ==
    LET match == match_server(page.url)
    IN  IF match = None
        THEN EnterOutcome([self EXCEPT !.logged_in = TRUE], form,
                          Append(lg, Event("print We're in! :)")), main, Some(page), NoExc)
        ELSE
        LET self1 == [self EXCEPT !.server_url = Some(match[1].server_url),
                                  !.server_id = Some(match[1].server_id)]
            team_id == parse_team_id(page)
        IN  IF team_id.exc # NoExc
            THEN EnterOutcome(self1, form, lg, main, Some(page), team_id.exc)
            ELSE
            LET team_name == parse_team_name_by_id(page, team_id.ret[1])
            IN  IF team_name.exc # NoExc
                THEN EnterOutcome(self1, form, lg, main, Some(page), team_name.exc)
                ELSE
                LET self2 == [self1 EXCEPT !.team = Some(Team(team_id.ret[1], team_name.ret[1]))]
                    lang == parse_page_language(page)
                IN  IF lang.exc # NoExc
                    THEN EnterOutcome(self2, form, lg, main, Some(page), lang.exc)
                    ELSE EnterOutcome([self2 EXCEPT !.language = lang.ret, !.logged_in = TRUE],
                                      form, Append(lg, Event("print We're in! :)")),
                                      main, Some(page), NoExc)

\* the part of __enter__ after the login POST has been answered with `page`
enter_parse(self, form, lg, main, page) ==
    LET match == match_server(page.url)
    IN  IF match = None
        THEN EnterOutcome(self, form, lg, main, Some(page), "RuntimeError(Unexpected URL)")
        ELSE
        LET self1 == [self EXCEPT !.server_url = Some(match[1].server_url),
                                  !.server_id = Some(match[1].server_id)]
            team_id == parse_team_id(page)
        IN  IF team_id.exc # NoExc
            THEN EnterOutcome(self1, form, lg, main, Some(page), team_id.exc)
            ELSE
            LET team_name == parse_team_name_by_id(page, team_id.ret[1])
            IN  IF team_name.exc # NoExc
                THEN EnterOutcome(self1, form, lg, main, Some(page), team_name.exc)
                ELSE
                LET self2 == [self1 EXCEPT !.team = Some(Team(team_id.ret[1], team_name.ret[1]))]
                    lang == parse_page_language(page)
                IN  IF lang.exc # NoExc
                    THEN EnterOutcome(self2, form, lg, main, Some(page), lang.exc)
                    ELSE EnterOutcome([self2 EXCEPT !.language = lang.ret, !.logged_in = TRUE],
                                      form, Append(lg, Event("print We're in! :)")),
                                      main, Some(page), NoExc)

\* variant: the login goes on after a landing-page GET that failed
enter_try_posting_anyway(self, form, lg, landing_page, prompt, login_response) ==
    LET self1 == [self EXCEPT !.session = Some("open")]
        lg1 == Append(lg, Event("requests.Session()"))
        first == open_link(self1, lg1, MAIN_PAGE, FALSE, "get", None, landing_page)
        lg2 == Append(first.log, Event("getpass()"))
    IN  IF prompt = None
        THEN EnterOutcome(self1, form, lg2, first.ret, None, "KeyboardInterrupt")
        ELSE
        LET form1 == (PASSWORD_FIELD :> prompt[1]) @@ form
            post == open_link(self1, lg2, LOGIN_PAGE, FALSE, "post", Some(form1),
                              login_response)
        IN  IF post.exc # NoExc
            THEN EnterOutcome(self1, form1, post.log, first.ret, None, post.exc)
            ELSE enter_parse(self1, form1, post.log, first.ret, post.ret[1])

\* the try block of __enter__
enter_try(self, form, lg, landing_page, prompt, login_response) ==
    LET self1 == [self EXCEPT !.session = Some("open")]
        lg1 == Append(lg, Event("requests.Session()"))
        first == open_link(self1, lg1, MAIN_PAGE, FALSE, "get", None, landing_page)
    IN  IF first.exc # NoExc
        THEN EnterOutcome(self1, form, first.log, None, None, first.exc)
        ELSE
        LET lg2 == Append(first.log, Event("getpass()"))
        IN  IF prompt = None
            THEN EnterOutcome(self1, form, lg2, first.ret, None, "KeyboardInterrupt")
            ELSE
            LET form1 == (PASSWORD_FIELD :> prompt[1]) @@ form
                post == open_link(self1, lg2, LOGIN_PAGE, FALSE, "post", Some(form1),
                                  login_response)
            IN  IF post.exc # NoExc
                THEN EnterOutcome(self1, form1, post.log, first.ret, None, post.exc)
                ELSE enter_parse(self1, form1, post.log, first.ret, post.ret[1])

\* __enter__ as a whole: `except Exception` runs __exit__ and raises again
enter(self, form, lg, landing_page, prompt, login_response, logout_page) ==
    LET tried == enter_try(self, form, lg, landing_page, prompt, login_response)
    IN  IF IsException(tried.exc)
        THEN LET left == exit(tried.self, tried.log, logout_page)
             IN  EnterOutcome(left.self, tried.form, left.log, tried.main_page,
                              tried.response,
                              IF left.exc # NoExc THEN left.exc ELSE tried.exc)
        ELSE tried

-----------------------------------------------------------------------------
(* The run of update.py: with ht: ... *)

SetSelf(self) ==
    /\ session' = self.session
    /\ server_url' = self.server_url
    /\ server_id' = self.server_id
    /\ team' = self.team
    /\ language' = self.language
    /\ logged_in' = self.logged_in

\* `with ht` calls ht.__enter__(); the body runs only if it returns
Enter ==
    /\ pc = "new"
    /\ \E landing_page \in LandingPages, prompt \in Prompts,
          login_response \in LoginResponses, logout_page \in InnerPages :
          LET out == enter(Self, LOGIN_FORM, log, landing_page, prompt, login_response,
                           logout_page)
          IN  /\ SetSelf(out.self)
              /\ LOGIN_FORM' = out.form
              /\ main_page' = out.main_page
              /\ response' = out.response
              /\ exc' = out.exc
              /\ log' = out.log
              /\ pc' = IF out.exc = NoExc THEN "body" ELSE "failed"
    /\ UNCHANGED <<body_requests>>
    /\ UNCHANGED find_vars
    /\ UNCHANGED call_vars

\* the body downloads a page: ht.download_player_list_page()
download_player_list_page ==
    /\ pc = "body"
    /\ body_requests < MaxBodyRequests
    /\ \E page \in InnerPages :
          LET out == open_link(Self, log, PLAYERS_LINK, TRUE, "get", None, page)
          IN  /\ log' = out.log
              /\ exc' = out.exc
              /\ pc' = IF out.exc = NoExc THEN "body" ELSE "exiting"
    /\ body_requests' = body_requests + 1
    /\ UNCHANGED <<session, server_url, server_id, team, language, logged_in,
                   LOGIN_FORM, main_page, response>>
    /\ UNCHANGED find_vars
    /\ UNCHANGED call_vars

\* a statement of the body raises without a request (a parser, the workbook)
BodyRaises ==
    /\ pc = "body"
    /\ \E e \in {"RuntimeError(could not find any player)", "KeyboardInterrupt"} :
          exc' = e
    /\ pc' = "exiting"
    /\ UNCHANGED <<session, server_url, server_id, team, language, logged_in,
                   LOGIN_FORM, main_page, response, body_requests, log>>
    /\ UNCHANGED find_vars
    /\ UNCHANGED call_vars

\* the body reaches its end
BodyReturns ==
    /\ pc = "body"
    /\ pc' = "exiting"
    /\ UNCHANGED <<session, server_url, server_id, team, language, logged_in,
                   LOGIN_FORM, main_page, response, exc, body_requests, log>>
    /\ UNCHANGED find_vars
    /\ UNCHANGED call_vars

\* leaving the with-block calls ht.__exit__(); what it raises replaces exc
Exit ==
    /\ pc = "exiting"
    /\ \E logout_page \in InnerPages :
          LET out == exit(Self, log, logout_page)
          IN  /\ SetSelf(out.self)
              /\ log' = out.log
              /\ exc' = IF out.exc # NoExc THEN out.exc ELSE exc
    /\ pc' = "done"
    /\ UNCHANGED <<LOGIN_FORM, main_page, response, body_requests>>
    /\ UNCHANGED find_vars
    /\ UNCHANGED call_vars

CallIdle ==
    /\ call = << >>
    /\ ret = << >>

FindIdle ==
    /\ pass = "none"
    /\ doc = << >>
    /\ pos = 0
    /\ scanning = FALSE
    /\ states = << >>
    /\ result = << >>

\* Hattrick.__init__
Init ==
    /\ pc = "new"
    /\ session = None
    /\ server_url = None
    /\ server_id = None
    /\ team = None
    /\ language = None
    /\ logged_in = FALSE
    /\ LOGIN_FORM = LOGIN_FORM_initial
    /\ main_page = None
    /\ response = None
    /\ exc = NoExc
    /\ body_requests = 0
    /\ log = << >>
    /\ FindIdle
    /\ CallIdle

Next ==
    \/ Enter
    \/ download_player_list_page
    \/ BodyRaises
    \/ BodyReturns
    \/ Exit

Spec == Init /\ [][Next]_vars

-----------------------------------------------------------------------------
(* Properties of the login session *)

\* positions of the log
Logged(name) == {i \in 1..Len(log) : log[i].ev = name}
RequestsTo(link) == {i \in 1..Len(log) : log[i].ev = "request" /\ log[i].link = link}

\* __enter__ reached `self.logged_in = True`
EverLoggedIn == Logged("print We're in! :)") # {}
\* __exit__ completed the logout
LoggedOut == Logged("print We're out! :)") # {}
\* __enter__ was called and raised
EnterFailed == pc = "failed"
\* the run is over
Ended == pc \in {"done", "failed"}

\* C1: once __enter__ has set logged_in, the run never ends without a logout
\* request, and every close of the transport session comes after that request.
C1_LogoutBeforeClose ==
    (Ended /\ EverLoggedIn) =>
        /\ RequestsTo(LOGOUT_LINK) # {}
        /\ \A i \in RequestsTo(LOGOUT_LINK), j \in Logged("session.__exit__") : i < j

\* the with-body raised after a successful login, and the run has ended
C1_Witness ==
    /\ pc = "done"
    /\ EverLoggedIn
    /\ exc = "RuntimeError(could not find any player)"
    /\ RequestsTo(LOGOUT_LINK) # {}
    /\ session = Some("closed")

\* C2: when the run has ended, a session that was opened has been closed.
C2_SessionClosedOnEveryExit ==
    (Ended /\ session # None) => session = Some("closed")

\* C3: a login response with the login-failure marker ends __enter__ with the
\* Authentication-Rejected error, logged_in False and the session closed.
C3_AuthenticationRejected ==
    (response # None /\ LOGIN_FAILURE_MARKER \in response[1].text) =>
        /\ exc = "AuthenticationRejected"
        /\ ~logged_in
        /\ pc = "failed"
        /\ session = Some("closed")

UnexpectedURL(page) == match_server(page.url) = None
UnexpectedCookie(page) == parse_team_id(page).exc # NoExc
UnsupportedLanguage(page) ==
    /\ page.lang # None
    /\ page.lang[1] \notin {"hu", "en"}

\* C4: a login response with an unexpected URL, a cookie without the team
\* id or a language code outside {hu, en} ends __enter__ with an error; the
\* session is not authenticated, no logout is sent, the body does not run.
C4_UnexpectedLoginResponseAborts ==
    (/\ response # None
     /\ \/ UnexpectedURL(response[1])
        \/ UnexpectedCookie(response[1])
        \/ UnsupportedLanguage(response[1])) =>
        /\ pc = "failed"
        /\ exc # NoExc
        /\ ~logged_in
        /\ ~EverLoggedIn
        /\ RequestsTo(LOGOUT_LINK) = {}
        /\ body_requests = 0

\* the only unexpected thing of the login response is its language code
C4_Witness ==
    /\ pc = "failed"
    /\ response # None
    /\ ~UnexpectedURL(response[1])
    /\ ~UnexpectedCookie(response[1])
    /\ response[1].team_title # None
    /\ UnsupportedLanguage(response[1])
    /\ exc = "RuntimeError(Failed to detect the page's language from)"

\* C5 as claimed: after a failed __enter__ every session field is empty.
C5_EmptyAfterFailedEnter ==
    EnterFailed =>
        /\ server_url = None
        /\ server_id = None
        /\ team = None
        /\ language = None
        /\ ~logged_in

\* C5: after a failed __enter__ logged_in is False and language is None, and
\* server_url, server_id and team hold what was parsed before the failure, in
\* the order of the assignments; all five are set when login succeeded.
C5_PartialAfterFailedEnter ==
    /\ EnterFailed =>
          /\ ~logged_in
          /\ language = None
          /\ (server_url = None) = (server_id = None)
          /\ team # None => server_url # None
          /\ (response # None /\ ~UnexpectedURL(response[1])) => server_url # None
    /\ EverLoggedIn =>
          /\ server_url # None
          /\ server_id # None
          /\ team # None
          /\ language # None

\* __enter__ failed on the language, after it had set server_url and team
C5_Witness ==
    /\ EnterFailed
    /\ server_url # None
    /\ team # None
    /\ language = None

\* C6 as claimed: after the logout the session fields are cleared.
C6_ClearedAfterLogout ==
    (pc = "done" /\ LoggedOut) =>
        /\ ~logged_in
        /\ server_url = None
        /\ server_id = None
        /\ team = None
        /\ language = None

\* C6: after the logout logged_in is False, and server_url, server_id, team
\* and language still hold what __enter__ parsed from the login response.
C6_OnlyLoggedInResetAfterLogout ==
    (pc = "done" /\ LoggedOut) =>
        /\ ~logged_in
        /\ server_url = Some(match_server(response[1].url)[1].server_url)
        /\ server_id = Some(match_server(response[1].url)[1].server_id)
        /\ team = Some(Team(parse_team_id(response[1]).ret[1], response[1].team_title[1]))
        /\ language = parse_page_language(response[1]).ret

\* the run logged in, ran the body to its end and logged out
C6_Witness ==
    /\ pc = "done"
    /\ LoggedOut
    /\ exc = NoExc
    /\ body_requests > 0
    /\ session = Some("closed")

\* C7: every login POST carries, for the dynamic hidden fields, the values
\* of the landing page fetched before it.
C7_LoginPostCarriesHarvestedFields ==
    \A i \in RequestsTo(LOGIN_PAGE) :
        /\ main_page # None
        /\ \A key \in DynamicKeys : log[i].data[1][key] = main_page[1].hidden[key]

\* C24: every logout request comes after the login has completed; a run
\* in which logged_in never became True has no logout request.
C24_LogoutOnlyWhenLoggedIn ==
    \A i \in RequestsTo(LOGOUT_LINK) :
        \E j \in Logged("print We're in! :)") : j < i

\* __enter__ failed after the login POST, __exit__ closed the transport
\* session, and no logout was sent
C24_Witness ==
    /\ EnterFailed
    /\ ~EverLoggedIn
    /\ RequestsTo(LOGIN_PAGE) # {}
    /\ Logged("session.__exit__") # {}
    /\ RequestsTo(LOGOUT_LINK) = {}

\* the requests whose link is relative to the server of the session
RelativeRequests ==
    {i \in 1..Len(log) : log[i].ev = "request" /\ log[i].link \notin {MAIN_PAGE, LOGIN_PAGE}}

\* C30: the body of the with statement runs only when logged_in is True;
\* whenever logged_in is True, session, server_url, server_id, team and
\* language are set; and every request with a relative link was built on
\* a server_url that was set.
C30_LoggedInImpliesAllSet ==
    /\ pc = "body" => logged_in
    /\ logged_in =>
          /\ session # None
          /\ server_url # None
          /\ server_id # None
          /\ team # None
          /\ language # None
    /\ \A i \in RelativeRequests : log[i].base # None

\* __enter__ has returned and the body has requested a relative link
C30_Witness ==
    /\ pc = "body"
    /\ logged_in
    /\ RequestsTo(PLAYERS_LINK) # {}
    /\ \A i \in RequestsTo(PLAYERS_LINK) : log[i].base = server_url

\* C31: a login POST is sent only after the landing-page GET, and only
\* when that GET was answered with a success status; after a login POST that
\* failed nothing of the response is parsed and logged_in is False.
C31_HttpFailureIsFatalAtOnce ==
    /\ \A i \in RequestsTo(LOGIN_PAGE) :
          /\ \E j \in RequestsTo(MAIN_PAGE) : j < i
          /\ main_page # None
          /\ main_page[1].ok
    /\ (RequestsTo(MAIN_PAGE) # {} /\ main_page = None) => RequestsTo(LOGIN_PAGE) = {}
    /\ (RequestsTo(LOGIN_PAGE) # {} /\ response = None) =>
          /\ ~logged_in
          /\ ~EverLoggedIn
          /\ server_url = None /\ server_id = None /\ team = None /\ language = None
          /\ exc = "HTTPError"

\* the landing page was fetched and the login POST failed
C31_Witness ==
    /\ EnterFailed
    /\ main_page # None
    /\ RequestsTo(LOGIN_PAGE) # {}
    /\ response = None
    /\ exc = "HTTPError"

-----------------------------------------------------------------------------
(* The extractor: FindState and _find_after_a_start_match *)

\* the patterns of the two scan loops modelled
tsi_on_next_line_pattern == "TSI</td>"
tsi_value_pattern == ">(?P<value>[^><]+)</td>"
total_pattern == DICTIONARY["total"]["hungarian"][1]
reserves_pattern == DICTIONARY["board_reserves"]["hungarian"][1]
money_pattern == "(?P<value>[0-9][0-9 ]+) eFt"

\* the FindState objects of a pass, in the order the loop feeds them
Descriptors(p) == IF p = "tsi" THEN <<"tsi">> ELSE <<"total", "reserves">>

StartPattern(d) ==
    CASE d = "tsi" -> tsi_on_next_line_pattern
      [] d = "sell_base_price" -> DICTIONARY["avg_price_block"]["hungarian"][1]
      [] d = "total" -> total_pattern
      [] d = "reserves" -> reserves_pattern

ValuePattern(d) == IF d = "tsi" THEN tsi_value_pattern ELSE money_pattern

\* texts the value patterns capture, as sequences of characters
MoneyValues == {<<"4", "2">>, <<"1", " ", "2">>}
TsiValues ==
    MoneyValues \cup {<<"T", "S", "I">>, <<"1", "2", "3", "4">>, <<"1", "2", " ", "3", "4">>}

\* a line: the start patterns that re.search finds in it, and what the value
\* pattern of the pass captures from it (None: no match)
Lines(p) ==
    [start : SUBSET {StartPattern(Descriptors(p)[i]) : i \in 1..Len(Descriptors(p))},
     value : {None} \cup {Some(v) : v \in (IF p = "tsi" THEN TsiValues ELSE MoneyValues)}]

RECURSIVE Documents(_, _)
Documents(p, n) ==
    IF n = 0 THEN {<< >>}
    ELSE LET shorter == Documents(p, n - 1)
         IN  shorter \cup {Append(d, l) : d \in {x \in shorter : Len(x) = n - 1},
                                          l \in Lines(p)}

\* FindState.__init__
FindState == [lets_find |-> FALSE, found_value |-> None]

\* FindState.found
found(find_state) == find_state.found_value # None

\* variant: the value search does not look at found_value
find_after_a_start_match_overwriting(start_pattern, value_pattern, text, find_state) ==
    LET match == text.value
        after_value ==
            IF find_state.lets_find /\ match # None
            THEN [find_state EXCEPT !.found_value = match]
            ELSE find_state
    IN  IF after_value.found_value = None /\ start_pattern \in text.start
        THEN [after_value EXCEPT !.lets_find = TRUE]
        ELSE after_value

\* variant: the value search does not wait for the block pattern
find_after_a_start_match_eager(start_pattern, value_pattern, text, find_state) ==
    LET match == text.value
        after_value ==
            IF find_state.found_value = None /\ match # None
            THEN [find_state EXCEPT !.found_value = match]
            ELSE find_state
    IN  IF after_value.found_value = None /\ start_pattern \in text.start
        THEN [after_value EXCEPT !.lets_find = TRUE]
        ELSE after_value

\* variant: lets_find follows the block pattern line by line
find_after_a_start_match_tracking(start_pattern, value_pattern, text, find_state) ==
    LET match == text.value
        after_value ==
            IF find_state.lets_find /\ find_state.found_value = None /\ match # None
            THEN [find_state EXCEPT !.found_value = match]
            ELSE find_state
    IN  IF after_value.found_value = None
        THEN [after_value EXCEPT !.lets_find = (start_pattern \in text.start)]
        ELSE after_value

\* variant: the block pattern is looked for before the value pattern
find_after_a_start_match_same_line(start_pattern, value_pattern, text, find_state) ==
    LET match == text.value
        after_start ==
            IF find_state.found_value = None /\ start_pattern \in text.start
            THEN [find_state EXCEPT !.lets_find = TRUE]
            ELSE find_state
    IN  IF after_start.lets_find /\ after_start.found_value = None /\ match # None
        THEN [after_start EXCEPT !.found_value = match]
        ELSE after_start

find_after_a_start_match(start_pattern, value_pattern, text, find_state) ==
    LET match == text.value
        after_value ==
            IF find_state.lets_find /\ find_state.found_value = None /\ match # None
            THEN [find_state EXCEPT !.found_value = match]
            ELSE find_state
    IN  IF after_value.found_value = None /\ start_pattern \in text.start
        THEN [after_value EXCEPT !.lets_find = TRUE]
        ELSE after_value

\* bound: how many characters a converted string has at most
MaxStringLen == 5

Whitespace == {" ", "\t"}
Digits == <<"0", "1", "2", "3", "4", "5", "6", "7", "8", "9">>

IsWhitespace(c) == c \in Whitespace

\* variant: only the whitespace at the two ends is removed (str.strip)
RECURSIVE remove_witespace_at_ends(_)
remove_witespace_at_ends(raw_string) ==
    IF raw_string = << >> THEN raw_string
    ELSE IF IsWhitespace(Head(raw_string)) THEN remove_witespace_at_ends(Tail(raw_string))
    ELSE IF IsWhitespace(raw_string[Len(raw_string)])
    THEN remove_witespace_at_ends(SubSeq(raw_string, 1, Len(raw_string) - 1))
    ELSE raw_string

remove_witespace(raw_string) == SelectSeq(raw_string, LAMBDA c : ~IsWhitespace(c))

DigitValue(c) == (CHOOSE i \in 1..10 : Digits[i] = c) - 1

RECURSIVE int(_)
int(digits) ==
    IF Len(digits) = 0 THEN 0
    ELSE 10 * int(SubSeq(digits, 1, Len(digits) - 1)) + DigitValue(digits[Len(digits)])

string_to_int(raw_string) ==
    LET text == remove_witespace(raw_string)
    IN  IF Len(text) = 0 \/ \E i \in 1..Len(text) : \A j \in 1..10 : Digits[j] # text[i]
        THEN [exc |-> "ValueError", ret |-> None]
        ELSE [exc |-> NoExc, ret |-> Some(int(text))]

get_int_or_raise_and_try_dumping_page_error(find_state) ==
    IF found(find_state)
    THEN string_to_int(find_state.found_value[1])
    ELSE [exc |-> call_raise_and_try_dumping_page_error_on(FindStateAttributes),
          ret |-> None]

\* variant: the loop ends as soon as one FindState has found its value
AllFound_any(p, sts) == \E i \in 1..Len(Descriptors(p)) : found(sts[Descriptors(p)[i]])

AllFound(p, sts) == \A i \in 1..Len(Descriptors(p)) : found(sts[Descriptors(p)[i]])

\* the loop of _parse_player_tsi: one FindState fed line by line until found
RECURSIVE ScanAlone(_, _, _)
ScanAlone(d, lines, find_state) ==
    IF lines = << >> \/ found(find_state) THEN find_state
    ELSE ScanAlone(d, Tail(lines),
                   find_after_a_start_match(StartPattern(d), ValuePattern(d), Head(lines),
                                            find_state))

\* variant: the loop ends once the first FindState of the pass has found
\* its value
ScanLine_until_first_found ==
    /\ scanning
    /\ pos < Len(doc)
    /\ LET text == doc[pos + 1]
           fed == [d \in DOMAIN states |->
                      find_after_a_start_match(StartPattern(d), ValuePattern(d), text,
                                               states[d])]
       IN  /\ states' = fed
           /\ pos' = pos + 1
           /\ scanning' = (~found(fed[Descriptors(pass)[1]]) /\ pos + 1 < Len(doc))
    /\ UNCHANGED <<pass, doc, result>>
    /\ UNCHANGED hattrick_vars
    /\ UNCHANGED call_vars

\* one iteration of the for loop of _parse_player_tsi / download_team
ScanLine ==
    /\ scanning
    /\ pos < Len(doc)
    /\ LET text == doc[pos + 1]
           fed == [d \in DOMAIN states |->
                      find_after_a_start_match(StartPattern(d), ValuePattern(d), text,
                                               states[d])]
       IN  /\ states' = fed
           /\ pos' = pos + 1
           /\ scanning' = (~AllFound(pass, fed) /\ pos + 1 < Len(doc))
    /\ UNCHANGED <<pass, doc, result>>
    /\ UNCHANGED hattrick_vars
    /\ UNCHANGED call_vars

\* the get_int_or_raise_and_try_dumping_page_error calls after the loop, in
\* order; a call that raises ends the function
RECURSIVE GetInts(_, _, _)
GetInts(ds, sts, res) ==
    IF ds = << >> THEN res
    ELSE LET out == get_int_or_raise_and_try_dumping_page_error(sts[Head(ds)])
             res1 == [res EXCEPT ![Head(ds)] = Some(out)]
         IN  IF out.exc # NoExc THEN res1 ELSE GetInts(Tail(ds), sts, res1)

Finish ==
    /\ pass # "none"
    /\ ~scanning
    /\ \A d \in DOMAIN result : result[d] = None
    /\ result' = GetInts(Descriptors(pass), states, result)
    /\ UNCHANGED <<pass, doc, pos, scanning, states>>
    /\ UNCHANGED hattrick_vars
    /\ UNCHANGED call_vars

HattrickIdle ==
    /\ pc = "new"
    /\ session = None
    /\ server_url = None
    /\ server_id = None
    /\ team = None
    /\ language = None
    /\ logged_in = FALSE
    /\ LOGIN_FORM = LOGIN_FORM_initial
    /\ main_page = None
    /\ response = None
    /\ exc = NoExc
    /\ body_requests = 0
    /\ log = << >>

\* a page to scan, and fresh FindState objects
InitFind ==
    /\ HattrickIdle
    /\ pass \in {"tsi", "team"}
    /\ doc \in Documents(pass, MaxLines)
    /\ pos = 0
    /\ scanning = (Len(doc) > 0)
    /\ states = [d \in {Descriptors(pass)[i] : i \in 1..Len(Descriptors(pass))} |-> FindState]
    /\ result = [d \in {Descriptors(pass)[i] : i \in 1..Len(Descriptors(pass))} |-> None]
    /\ CallIdle

NextFind ==
    \/ ScanLine
    \/ Finish

SpecFind == InitFind /\ [][NextFind]_vars

-----------------------------------------------------------------------------
(* Properties of the extractor *)

\* C8: once found_value of a FindState is set, no later line changes its
\* found_value or its lets_find.
C8_FoundValueSetAtMostOnce ==
    [][\A d \in DOMAIN states :
          found(states[d]) => states'[d] = states[d]]_vars

\* total is found, and the loop has since fed a line with another value
C8_Witness ==
    /\ pass = "team"
    /\ pos >= 3
    /\ found(states["total"])
    /\ ~found(states["reserves"])
    /\ doc[pos].value # None
    /\ doc[pos].value # states["total"].found_value
    /\ StartPattern("total") \in doc[pos].start

\* C9: lets_find of a FindState never goes from True back to False.
C9_LetsFindNeverReset ==
    [][\A d \in DOMAIN states :
          states[d].lets_find => states'[d].lets_find]_vars

\* the block is entered and the last line fed neither matches the block
\* pattern nor gives a value
C9_Witness ==
    /\ pos >= 2
    /\ \E d \in DOMAIN states :
          /\ states[d].lets_find
          /\ ~found(states[d])
          /\ StartPattern(d) \notin doc[pos].start
          /\ StartPattern(d) \in doc[pos - 1].start

\* C10: when no line of the page matches the block pattern of a field, the
\* extraction of the field raises the Pattern-Not-Found error of
\* _raise_and_try_dumping_page_error.
C10_NoBlockRaisesPatternNotFound ==
    \A d \in DOMAIN result :
        (/\ result[d] # None
         /\ \A i \in 1..Len(doc) : StartPattern(d) \notin doc[i].start) =>
            result[d][1].exc = raise_and_try_dumping_page_error

\* the lines of the page that match the block pattern of d, and the first one
BlockLines(d) == {i \in 1..Len(doc) : StartPattern(d) \in doc[i].start}
EntryLine(d) == CHOOSE i \in BlockLines(d) : \A j \in BlockLines(d) : i <= j

\* C11: for every window size n, when the block pattern matches and none of
\* the n lines after the block entry matches the value pattern, the extraction
\* of the field fails, whatever the lines after the window contain.
C11_ValueOutsideWindowFails ==
    \A d \in DOMAIN result : \A n \in 1..MaxLines :
        (/\ result[d] # None
         /\ BlockLines(d) # {}
         /\ \A j \in (EntryLine(d) + 1)..(EntryLine(d) + n) :
               j <= Len(doc) => doc[j].value = None) =>
            result[d][1].exc # NoExc

\* C12: at the end of the common loop of download_team, each FindState holds
\* what it holds when it is run alone over the same page.
C12_TogetherAsAlone ==
    (pass = "team" /\ ~scanning) =>
        \A d \in DOMAIN states : states[d] = ScanAlone(d, doc, FindState)

\* the common loop has ended with two different values: the FindState found
\* first was fed the lines up to the value of the other
C12_Witness ==
    /\ pass = "team"
    /\ ~scanning
    /\ found(states["total"])
    /\ found(states["reserves"])
    /\ states["total"].found_value # states["reserves"].found_value

\* the FindStates after each of these lines, in order, has been fed to all
RECURSIVE FedAll(_, _)
FedAll(lines, sts) ==
    IF lines = << >> THEN sts
    ELSE FedAll(Tail(lines),
                [d \in DOMAIN sts |->
                    find_after_a_start_match(StartPattern(d), ValuePattern(d), Head(lines),
                                             sts[d])])

\* C26: the loop has ended before the last line only if every FindState of
\* the pass has found its value; until then the lines fed are the lines of
\* the document up to the current one, each once and in document order.
C26_EarlyStopOnlyWhenAllFound ==
    pass # "none" =>
        /\ states = FedAll(SubSeq(doc, 1, pos), [d \in DOMAIN states |-> FindState])
        /\ (~scanning /\ pos < Len(doc)) => AllFound(pass, states)
        /\ scanning => (pos < Len(doc) /\ ~AllFound(pass, states))

\* the common loop of download_team has ended before the last line
C26_Witness ==
    /\ pass = "team"
    /\ ~scanning
    /\ 0 < pos /\ pos < Len(doc)
    /\ AllFound(pass, states)

\* C32: a FindState that has found its value has it from the first line
\* strictly after its block-entry line that matches the value pattern; on
\* the entry line itself it only enters the block.
C32_NoValueFromEntryLine ==
    \A d \in DOMAIN states :
        /\ found(states[d]) =>
              /\ BlockLines(d) # {}
              /\ \E j \in (EntryLine(d) + 1)..pos :
                    /\ doc[j].value = states[d].found_value
                    /\ \A k \in (EntryLine(d) + 1)..(j - 1) : doc[k].value = None
        /\ (BlockLines(d) # {} /\ pos = EntryLine(d)) =>
              (states[d].lets_find /\ ~found(states[d]))

\* the line just fed matches the block pattern for the first time and the
\* value pattern too
C32_Witness ==
    /\ pass = "tsi"
    /\ BlockLines("tsi") # {}
    /\ pos = EntryLine("tsi")
    /\ doc[pos].value # None
    /\ states["tsi"].lets_find
    /\ ~found(states["tsi"])

\* the integers of the digit strings of the model
IntegerOf(v) ==
    CASE v = <<"4", "2">> -> 42
      [] v = <<"1", "2", "3", "4">> -> 1234

\* C13: when the line after the first block line matches the value pattern
\* with a digit string, the extraction returns the integer of that string,
\* whatever the lines before the block line contain.
C13_ValueOfNextLineReturned ==
    \A d \in DOMAIN result :
        (/\ result[d] # None
         /\ BlockLines(d) # {}
         /\ EntryLine(d) < Len(doc)
         /\ doc[EntryLine(d) + 1].value \in {Some(<<"4", "2">>), Some(<<"1", "2", "3", "4">>)}) =>
            result[d][1] = [exc |-> NoExc,
                            ret |-> Some(IntegerOf(doc[EntryLine(d) + 1].value[1]))]

\* lines x / block marker / >1234<, where x carries another value
C13_Witness ==
    /\ pass = "tsi"
    /\ Len(doc) = 3
    /\ doc[1] = [start |-> {}, value |-> Some(<<"4", "2">>)]
    /\ doc[2] = [start |-> {tsi_on_next_line_pattern}, value |-> None]
    /\ doc[3] = [start |-> {}, value |-> Some(<<"1", "2", "3", "4">>)]
    /\ result["tsi"] = Some([exc |-> NoExc, ret |-> Some(1234)])

-----------------------------------------------------------------------------
(* Single calls of the functions of hattrick.py *)

Call(fn, args) == [fn |-> fn, args |-> args]

RECURSIVE Strings(_, _)
Strings(chars, n) ==
    IF n = 0 THEN {<< >>}
    ELSE LET shorter == Strings(chars, n - 1)
         IN  shorter \cup {Append(x, c) : x \in {y \in shorter : Len(y) = n - 1}, c \in chars}

\* _string_to_int(raw_string)
StringToIntCalls ==
    {Call("string_to_int", <<raw>>) : raw \in Strings({"1", "2", " ", "\t"}, MaxStringLen)}

\* LanguageDependentText(hungarian=..., english=...).translate_to(language)
TranslateToCalls ==
    {Call("translate_to", <<LanguageDependentText(hu, en), lang>>) :
        hu \in {None, Some("Osszesen:")}, en \in {None, Some("Total:")},
        lang \in {"hungarian", "english"}}

\* Hattrick.DICTIONARY[key].translate_to(language)
ResolveCalls ==
    {Call("resolve", <<key, lang>>) :
        key \in DOMAIN DICTIONARY \cup {"tsi"},
        lang \in {"hungarian", "english", "german", "SUPPORTED_LANGUAGES", "translate_to"}}

-----------------------------------------------------------------------------
(* The price-estimation page and its continuation *)

TRANSFER_COMPARE_LINK == "Club/Transfers/TransferCompare"
FURTHER_TRANSFERS_LINK_ID == "ctl00_ctl00_CPContent_CPMain_lnkMoreTransfers"

LOAD_MORE_TRANSFERS_FORM_initial ==
    ("ctl00_ctl00_sm_HiddenField" :> "TOKEN")
    @@ ("__EVENTTARGET" :> "ctl00$ctl00$CPContent$CPMain$lnkMoreTransfers")

\* re.search(r'{}.*value="(?P<value>[^"]+)"'.format(key), page.text):
\* page.hidden maps a key to the value this search finds for it
find_value_on_page_for_key(page, key) ==
    IF key \in DOMAIN page.hidden
    THEN [exc |-> NoExc, ret |-> Some(page.hidden[key])]
    ELSE [exc |-> call_raise_and_try_dumping_page_error_on(HattrickAttributes), ret |-> None]

\* variant: a value already in the form is kept
update_form_with_dynamic_value_once(page, key, form) ==
    LET value == find_value_on_page_for_key(page, key)
    IN  IF value.exc # NoExc
        THEN [exc |-> value.exc, form |-> form]
        ELSE [exc |-> NoExc, form |-> form @@ (key :> value.ret[1])]

update_form_with_dynamic_value(page, key, form) ==
    LET value == find_value_on_page_for_key(page, key)
    IN  IF value.exc # NoExc
        THEN [exc |-> value.exc, form |-> form]
        ELSE [exc |-> NoExc, form |-> (key :> value.ret[1]) @@ form]

\* the for loop of _load_more_transfers over the remaining keys
RECURSIVE UpdateForm(_, _, _)
UpdateForm(keys, page, form) ==
    IF keys = << >> THEN [exc |-> NoExc, form |-> form]
    ELSE LET updated == update_form_with_dynamic_value(page, Head(keys), form)
         IN  IF updated.exc # NoExc THEN updated
             ELSE UpdateForm(Tail(keys), page, updated.form)

\* what the downloads of the price-estimation page give: the log, the
\* exception or the page, LOAD_MORE_TRANSFERS_FORM, and the first response
PageOutcome(lg, e, page, form, first) ==
    [log |-> lg, exc |-> e, ret |-> page, form |-> form, first |-> first]

\* the continuation POST is answered by `answer`
load_more_transfers(self, lg, form, page, link, answer) ==
    LET updated == UpdateForm(<<EVENT_VALIDATION_KEY, VIEW_STATE_KEY,
                                VIEW_STATE_GENERATOR_KEY>>, page, form)
    IN  IF updated.exc # NoExc
        THEN PageOutcome(lg, updated.exc, None, updated.form, Some(page))
        ELSE LET posted == open_link(self, lg, link, TRUE, "post", Some(updated.form),
                                     answer)
             IN  PageOutcome(posted.log, posted.exc, posted.ret, updated.form, Some(page))

\* variant: the answer to the continuation POST is dropped
download_sell_price_etimation_page_keeping_first(self, lg, form, player_page, first, second) ==
    IF player_page.compare_link = None
    THEN PageOutcome(lg, call_raise_and_try_dumping_page_error_on(HattrickAttributes),
                     None, form, None)
    ELSE LET link == player_page.compare_link[1]
             opened == open_link(self, lg, link, TRUE, "get", None, first)
         IN  IF opened.exc # NoExc
             THEN PageOutcome(opened.log, opened.exc, None, form, None)
             ELSE IF FURTHER_TRANSFERS_LINK_ID \in opened.ret[1].text
             THEN LET more == load_more_transfers(self, opened.log, form, opened.ret[1],
                                                  link, second)
                  IN  PageOutcome(more.log, more.exc,
                                  IF more.exc = NoExc THEN opened.ret ELSE None,
                                  more.form, more.first)
             ELSE PageOutcome(opened.log, NoExc, opened.ret, form, opened.ret)

\* the link of player_page is answered by `first`, a continuation by `second`
download_sell_price_etimation_page(self, lg, form, player_page, first, second) ==
    IF player_page.compare_link = None
    THEN PageOutcome(lg, call_raise_and_try_dumping_page_error_on(HattrickAttributes),
                     None, form, None)
    ELSE LET link == player_page.compare_link[1]
             opened == open_link(self, lg, link, TRUE, "get", None, first)
         IN  IF opened.exc # NoExc
             THEN PageOutcome(opened.log, opened.exc, None, form, None)
             ELSE IF FURTHER_TRANSFERS_LINK_ID \in opened.ret[1].text
             THEN load_more_transfers(self, opened.log, form, opened.ret[1], link, second)
             ELSE PageOutcome(opened.log, NoExc, opened.ret, form, opened.ret)

\* what _parse_player_sell_base_price gives: as above, with the page that was
\* searched and the price or the exception
parse_player_sell_base_price(self, lg, form, player_page, first, second) ==
    LET downloaded == download_sell_price_etimation_page(self, lg, form, player_page,
                                                         first, second)
        avg_price_block_pattern == resolve(DICTIONARY, "avg_price_block", self.language)
    IN  IF downloaded.exc # NoExc
        THEN [downloaded EXCEPT !.ret = None] @@ [page |-> None]
        ELSE IF avg_price_block_pattern.exc # NoExc
        THEN [downloaded EXCEPT !.exc = avg_price_block_pattern.exc, !.ret = None]
             @@ [page |-> downloaded.ret]
        ELSE LET sell_base_price == ScanAlone("sell_base_price", downloaded.ret[1].lines,
                                              FindState)
                 price == get_int_or_raise_and_try_dumping_page_error(sell_base_price)
             IN  [downloaded EXCEPT !.exc = price.exc, !.ret = price.ret]
                 @@ [page |-> downloaded.ret]

\* the player page: the transfer-compare link found in it, if any
PlayerPages ==
    [compare_link : {None, Some("Club/Transfers/TransferCompare.aspx?playerId=417")}]

AvgPriceLine == [start |-> {StartPattern("sell_base_price")}, value |-> None]
PriceLine(v) == [start |-> {}, value |-> Some(v)]

\* a page that lacks one of the dynamic hidden fields
PartialHidden == [key \in {EVENT_VALIDATION_KEY, VIEW_STATE_KEY} |-> FreshHidden[key]]

\* first answers: status, continuation marker and error banner, hidden
\* fields, and the lines (with the average price 42, or without)
FirstEstimationPages ==
    [ok : BOOLEAN, text : SUBSET {FURTHER_TRANSFERS_LINK_ID, "Alkalmazashiba"},
     hidden : {FreshHidden, PartialHidden},
     lines : {<< >>, <<AvgPriceLine, PriceLine(<<"4", "2">>)>>}]

\* answers to the continuation POST (with the average price 12, or without)
MoreEstimationPages ==
    [ok : BOOLEAN, text : SUBSET {"Alkalmazashiba"}, hidden : {FreshHidden},
     lines : {<< >>, <<AvgPriceLine, PriceLine(<<"1", " ", "2">>)>>}]

\* values the price-estimation page of an earlier player served
EarlierHidden ==
    (VIEW_STATE_KEY :> "/wEPDwUKLTearlier")
    @@ (VIEW_STATE_GENERATOR_KEY :> "0B1D2E3F")
    @@ (EVENT_VALIDATION_KEY :> "/wEdAAearlier")

\* LOAD_MORE_TRANSFERS_FORM is shared by all calls: as written in the class,
\* as left by an earlier continuation, or as left by an earlier harvest that
\* failed at the third field
LoadMoreTransfersForms ==
    {LOAD_MORE_TRANSFERS_FORM_initial,
     EarlierHidden @@ LOAD_MORE_TRANSFERS_FORM_initial,
     [key \in {EVENT_VALIDATION_KEY, VIEW_STATE_KEY} |-> EarlierHidden[key]]
        @@ LOAD_MORE_TRANSFERS_FORM_initial}

\* how writing the dump file can end: written, or an exception of io.open or
\* of the write
DumpEnds == {NoExc, "OSError", "UnicodeEncodeError"}

\* _raise_and_try_dumping_page_error(base_error_message, dump_suffix, page, regex)
RaiseCalls ==
    {Call("raise_and_try_dumping_page_error", <<base, suffix, dump, regex>>) :
        base \in {"Failed to find the team name", "Failed to find the player's TSI"},
        suffix \in {"team_name", "tsi"}, dump \in DumpEnds,
        regex \in {None, Some(tsi_value_pattern)}}

Call_raise_and_try_dumping_page_error ==
    /\ call # None /\ call.fn = "raise_and_try_dumping_page_error"
    /\ ret = None
    /\ ret' = Some(raise_and_try_dumping_page_error_of(call.args[1], call.args[2],
                                                       call.args[3], call.args[4]))
    /\ UNCHANGED <<call>>
    /\ UNCHANGED hattrick_vars
    /\ UNCHANGED find_vars

-----------------------------------------------------------------------------
(* Hattrick.download_team *)

TEAM_FINANCE_LINK == "Club/Finances/?teamId="

\* the for loop of download_team: every FindState of the pass is fed each
\* line until all have found their value
RECURSIVE ScanTogether(_, _, _)
ScanTogether(p, lines, sts) ==
    IF lines = << >> \/ AllFound(p, sts) THEN sts
    ELSE ScanTogether(p, Tail(lines),
                      [d \in DOMAIN sts |->
                          find_after_a_start_match(StartPattern(d), ValuePattern(d),
                                                   Head(lines), sts[d])])

\* what download_team gives: the log, the exception or the returned Team,
\* and the Hattrick object as the call leaves it
TeamOutcome(self, lg, e, r) == [self |-> self, log |-> lg, exc |-> e, ret |-> r]

\* the finance link of self.team is answered by `finance_page`
download_team(self, lg, finance_page) ==
    LET opened == open_link(self, lg, <<TEAM_FINANCE_LINK, self.team[1].id>>, TRUE, "get",
                            None, finance_page)
        total_text == resolve(DICTIONARY, "total", self.language)
        reserves_text == resolve(DICTIONARY, "board_reserves", self.language)
    IN  IF opened.exc # NoExc THEN TeamOutcome(self, opened.log, opened.exc, None)
        ELSE IF total_text.exc # NoExc
        THEN TeamOutcome(self, opened.log, total_text.exc, None)
        ELSE IF reserves_text.exc # NoExc
        THEN TeamOutcome(self, opened.log, reserves_text.exc, None)
        ELSE LET sts == ScanTogether("team", opened.ret[1].lines,
                                     [d \in {"total", "reserves"} |-> FindState])
                 total == get_int_or_raise_and_try_dumping_page_error(sts["total"])
                 with_total == [self EXCEPT !.team[1].finance.total = total.ret]
                 reserves == get_int_or_raise_and_try_dumping_page_error(sts["reserves"])
                 with_both == [with_total EXCEPT
                                  !.team[1].finance.board_reserves = reserves.ret]
             IN  IF total.exc # NoExc
                 THEN TeamOutcome(self, opened.log, total.exc, None)
                 ELSE IF reserves.exc # NoExc
                 THEN TeamOutcome(with_total, opened.log, reserves.exc, None)
                 ELSE TeamOutcome(with_both, opened.log, NoExc, with_both.team)

\* answers to the finance link: pages with lines to scan, and answers that
\* _open_link rejects
FinancePages ==
    {[ok |-> TRUE, text |-> {}, lines |-> d] : d \in Documents("team", MaxLines)}
    \cup [ok : BOOLEAN, text : SUBSET {"Alkalmazashiba"}, lines : {<< >>}]

\* the Hattrick object inside __enter__, before the login has completed
SelfBeforeLogin ==
    [session |-> Some("open"), server_url |-> None, server_id |-> None, team |-> None,
     language |-> None, logged_in |-> FALSE]

\* the Hattrick object after a login on a page of this language
SelfLoggedIn(lang) ==
    [session |-> Some("open"), server_url |-> Some("https://www97.hattrick.org"),
     server_id |-> Some(97), team |-> Some(Team(123456, "Kispest FC")),
     language |-> Some(lang), logged_in |-> TRUE]

\* self._open_link(...): the two requests of __enter__, and the requests of a
\* logged-in session
OpenLinkCalls ==
    {Call("open_link", <<SelfBeforeLogin, MAIN_PAGE, FALSE, "get", None, page>>) :
        page \in InnerPages}
    \cup {Call("open_link", <<SelfBeforeLogin, LOGIN_PAGE, FALSE, "post",
                              Some(LOGIN_FORM_initial), page>>) : page \in InnerPages}
    \cup {Call("open_link", <<SelfLoggedIn(lang), link, TRUE, "get", None, page>>) :
            lang \in {"hungarian", "english"}, link \in {PLAYERS_LINK, LOGOUT_LINK},
            page \in InnerPages}

\* self._parse_player_sell_base_price(player_page) in a logged-in session
SellBasePriceCalls ==
    {Call("parse_player_sell_base_price",
          <<SelfLoggedIn(lang), player_page, first, second, form>>) :
        lang \in {"hungarian", "english"}, player_page \in PlayerPages,
        first \in FirstEstimationPages, second \in MoreEstimationPages,
        form \in LoadMoreTransfersForms}

Call_parse_player_sell_base_price ==
    /\ call # None /\ call.fn = "parse_player_sell_base_price"
    /\ ret = None
    /\ ret' = Some(parse_player_sell_base_price(call.args[1], << >>, call.args[5],
                                                call.args[2], call.args[3], call.args[4]))
    /\ UNCHANGED <<call>>
    /\ UNCHANGED hattrick_vars
    /\ UNCHANGED find_vars

\* self.download_team() in a logged-in session
DownloadTeamCalls ==
    {Call("download_team", <<SelfLoggedIn(lang), finance_page>>) :
        lang \in {"hungarian", "english"}, finance_page \in FinancePages}

Call_download_team ==
    /\ call # None /\ call.fn = "download_team"
    /\ ret = None
    /\ ret' = Some(download_team(call.args[1], << >>, call.args[2]))
    /\ UNCHANGED <<call>>
    /\ UNCHANGED hattrick_vars
    /\ UNCHANGED find_vars

-----------------------------------------------------------------------------
(* excel.py: _run_if_not_read_only and the methods that use it *)

\* the generator of _run_if_not_read_only: what it prints before its yield,
\* whether it yields, and what it prints when resumed
run_if_not_read_only(read_only) ==
    IF read_only
    THEN [before |-> <<"skipped (read-only mode)">>, yields |-> FALSE, after |-> << >>]
    ELSE [before |-> << >>, yields |-> TRUE, after |-> <<"done">>]

\* `with cm: body` for a contextlib.contextmanager over this generator:
\* __enter__ is next(gen), and a generator that ends without a yield is a
\* RuntimeError; the body is described by the writes it makes and how it
\* ends; __exit__ resumes the generator, or throws the body's exception
\* into it
with_contextmanager(gen, prints, body) ==
    IF ~gen.yields
    THEN [prints |-> prints \o gen.before, writes |-> << >>, runs |-> 0,
          exc |-> "RuntimeError(generator didn't yield)"]
    ELSE IF body.exc # NoExc
    THEN [prints |-> prints \o gen.before, writes |-> body.writes, runs |-> 1,
          exc |-> body.exc]
    ELSE [prints |-> prints \o gen.before \o gen.after, writes |-> body.writes,
          runs |-> 1, exc |-> NoExc]

\* what each method prints before its with statement
ExcelMethods ==
    ("update_team" :> "Team -> excel... ")
    @@ ("update_player" :> "### Update '{}' -> excel... ")
    @@ ("add_player" :> "### Add '{}' -> excel... ")

\* Excel.update_team, Excel.update_player, Excel.add_player
excel_method(method, read_only, body) ==
    with_contextmanager(run_if_not_read_only(read_only), <<ExcelMethods[method]>>, body)

\* the bodies: the cells written, and the exception that ends the body, if any
ExcelBodies ==
    {[writes |-> <<"A1">>, exc |-> NoExc],
     [writes |-> <<"B2", "A1">>, exc |-> NoExc],
     [writes |-> << >>, exc |-> "KeyError"],
     [writes |-> <<"B2">>, exc |-> "RuntimeError(Cannot find the sheet)"]}

ExcelCalls ==
    {Call("excel_method", <<method, read_only, body>>) :
        method \in DOMAIN ExcelMethods, read_only \in BOOLEAN, body \in ExcelBodies}

Call_excel_method ==
    /\ call # None /\ call.fn = "excel_method"
    /\ ret = None
    /\ ret' = Some(excel_method(call.args[1], call.args[2], call.args[3]))
    /\ UNCHANGED <<call>>
    /\ UNCHANGED hattrick_vars
    /\ UNCHANGED find_vars

-----------------------------------------------------------------------------
(* excel.py: the dated rows of a player sheet and Excel.update_player *)

\* the number of updates of one day that a call sequence makes
MaxUpdates == 2

\* day numbers; the text "dd/mm/YYYY" of day d is StrCell(d), and StrCell(0)
\* is a text that strptime does not accept
Days == 1..2

\* the values of a cell of column A as .options(dates=date).value gives them
DateCell(d) == [kind |-> "date", day |-> d]
StrCell(d) == [kind |-> "str", day |-> d]
FloatCell == [kind |-> "float", day |-> 0]
EmptyCell == [kind |-> "None", day |-> 0]

\* the last row of a worksheet
LAST_ROW == 1048576

\* a player sheet is the sequence of its rows that have a value in column A,
\* the header first; sheet["A:A"].end("down") is the last cell of that
\* block, or the empty cell at the bottom of the sheet when A2 is empty
end_down(sheet) ==
    IF Len(sheet) >= 2
    THEN [row |-> Len(sheet), value |-> sheet[Len(sheet)].A]
    ELSE [row |-> LAST_ROW, value |-> EmptyCell]

\* _check_and_try_fixing_date_of_last_update: how it ends; the date it
\* converts a text to is only returned
check_and_try_fixing_date_of_last_update(last_cell_with_value) ==
    LET last_update == last_cell_with_value.value
    IN  IF last_update.kind = "None"
        THEN "RuntimeError(Failed to find the date of last update)"
        ELSE IF last_update.kind = "date" THEN NoExc
        ELSE IF last_update.kind = "str"
        THEN IF last_update.day \in Days THEN NoExc ELSE "ValueError(strptime)"
        ELSE "ValueError(Expected date)"

\* _get_todays_row: the sheet afterwards and the number of today's row
get_todays_row(sheet, last_cell_with_value, today) ==
    LET date_of_last_update == last_cell_with_value.value
        row_number == last_cell_with_value.row
    IN  IF date_of_last_update = DateCell(today)
        THEN [sheet |-> sheet, row |-> row_number]
        ELSE [sheet |-> Append(sheet, [sheet[row_number] EXCEPT !.A = DateCell(today)]),
              row |-> row_number + 1]

\* Excel.update_player: self afterwards, today's row and how the call ends
update_player(self, player) ==
    IF ~run_if_not_read_only(self.read_only).yields
    THEN [self |-> self, row |-> 0, exc |-> "RuntimeError(generator didn't yield)"]
    ELSE IF player.name \notin DOMAIN self.player_sheets
    THEN [self |-> self, row |-> 0, exc |-> "KeyError"]
    ELSE
    LET sheet == self.player_sheets[player.name]
        last_cell_with_value == end_down(sheet)
        checked == check_and_try_fixing_date_of_last_update(last_cell_with_value)
    IN  IF checked # NoExc
        THEN [self |-> self, row |-> 0, exc |-> checked]
        ELSE
        LET todays_row == get_todays_row(sheet, last_cell_with_value, self.today)
            updated == [todays_row.sheet EXCEPT ![todays_row.row].values = player.values]
        IN  [self |-> [self EXCEPT !.player_sheets[player.name] = updated],
             row |-> todays_row.row,
             exc |-> IF player.name \in self.central THEN NoExc
                     ELSE "ValueError(Failed to find)"]

\* update_player called for each player of a sequence on one Excel object:
\* the outcomes of the calls in order
RECURSIVE update_player_calls(_, _)
update_player_calls(self, players) ==
    IF players = << >> THEN << >>
    ELSE LET first == update_player(self, Head(players))
         IN  <<first>> \o update_player_calls(first.self, Tail(players))

SheetRow(cell) == [A |-> cell, values |-> "old", format |-> "bold"]

DatedRows ==
    {SheetRow(DateCell(d)) : d \in Days} \cup {SheetRow(StrCell(d)) : d \in Days}
    \cup {SheetRow(StrCell(0)), SheetRow(FloatCell)}

PlayerSheets ==
    {<<SheetRow(StrCell(0))>>}
    \cup {<<SheetRow(StrCell(0)), r>> : r \in DatedRows}
    \cup {<<SheetRow(StrCell(0)), r, s>> : r \in DatedRows, s \in DatedRows}

ThePlayer == [name |-> "Player", values |-> "new"]

ExcelObjects ==
    {[read_only |-> read_only, player_sheets |-> names :> sheet, today |-> today,
      central |-> central] :
        read_only \in BOOLEAN, names \in {"Player", "Other"}, sheet \in PlayerSheets,
        today \in Days, central \in {{}, {"Player"}}}

UpdatePlayerCalls ==
    {Call("update_player_calls", <<self, [i \in 1..n |-> ThePlayer]>>) :
        self \in ExcelObjects, n \in 1..MaxUpdates}

Call_update_player_calls ==
    /\ call # None /\ call.fn = "update_player_calls"
    /\ ret = None
    /\ ret' = Some(update_player_calls(call.args[1], call.args[2]))
    /\ UNCHANGED <<call>>
    /\ UNCHANGED hattrick_vars
    /\ UNCHANGED find_vars

-----------------------------------------------------------------------------
(* excel.py: Excel.monitored_players_names *)

\* the number of calls made on one Excel object
MaxCalls == 2

\* sheet names are sequences of characters
SOLD_PLAYER_MARKER == "$"
NEW_PLAYER_MARKER == "@"

\* `marker in name`
Contains(marker, name) == \E i \in 1..Len(name) : name[i] = marker

\* _is_player_sheet: the first cell holds the header of the date column
is_player_sheet(sheet) == sheet.first_cell = "Datum"

\* the loop of monitored_players_names over the sheets from sheet number i
RECURSIVE monitor_sheets(_, _, _)
monitor_sheets(self, sheets, i) ==
    IF i > Len(sheets) THEN self
    ELSE LET sheet == sheets[i]
             player_is_active ==
                 ~\E marker \in {SOLD_PLAYER_MARKER, NEW_PLAYER_MARKER} :
                     Contains(marker, sheet.name)
         IN  IF is_player_sheet(sheet) /\ player_is_active
             THEN monitor_sheets(
                      [self EXCEPT
                          !.player_sheets = (sheet.name :> sheet) @@ @,
                          !.monitored_players_names = Append(@, sheet.name)],
                      sheets, i + 1)
             ELSE monitor_sheets(self, sheets, i + 1)

\* Excel.monitored_players_names: self afterwards, the list returned and how
\* the call ends; _sheets raises without a workbook
monitored_players_names(self) ==
    IF self.workbook = None
    THEN [self |-> self, names |-> << >>,
          exc |-> "RuntimeError(Tried accessing sheets)"]
    ELSE LET after == monitor_sheets(self, self.workbook[1], 1)
         IN  [self |-> after, names |-> after.monitored_players_names, exc |-> NoExc]

\* n calls on one Excel object: the outcomes in order
RECURSIVE monitored_players_names_calls(_, _)
monitored_players_names_calls(self, n) ==
    IF n = 0 THEN << >>
    ELSE LET first == monitored_players_names(self)
         IN  <<first>> \o monitored_players_names_calls(first.self, n - 1)

SheetNames == {<<"A", "b">>, <<"A", "b", "$">>, <<"@", "N">>, <<"C", "d">>}

WorkbookSheets == [name : SheetNames, first_cell : {"Datum", "Nev"}]

\* the sheets of a workbook have different names
Workbooks ==
    {<<s>> : s \in WorkbookSheets}
    \cup {w \in WorkbookSheets \X WorkbookSheets : w[1].name # w[2].name}
    \cup {w \in WorkbookSheets \X WorkbookSheets \X WorkbookSheets :
              /\ w[1].name # w[2].name
              /\ w[1].name # w[3].name
              /\ w[2].name # w[3].name}

\* the Excel object after __init__, and after __enter__ has opened the file
ExcelOf(workbook) ==
    [workbook |-> workbook, player_sheets |-> << >>, monitored_players_names |-> << >>]

MonitoredCalls ==
    {Call("monitored_players_names_calls", <<ExcelOf(workbook), n>>) :
        workbook \in {None} \cup {Some(sheets) : sheets \in Workbooks}, n \in 1..MaxCalls}

Call_monitored_players_names_calls ==
    /\ call # None /\ call.fn = "monitored_players_names_calls"
    /\ ret = None
    /\ ret' = Some(monitored_players_names_calls(call.args[1], call.args[2]))
    /\ UNCHANGED <<call>>
    /\ UNCHANGED hattrick_vars
    /\ UNCHANGED find_vars

-----------------------------------------------------------------------------
(* data.py: Age and PlayerMixin._ensure_valid_value *)

MAX_DAYS == 112

Age(years, days) == [years |-> years, days |-> days]

\* Age.__bool__
AgeIsValid(age) ==
    /\ age.years # None /\ age.days # None
    /\ 16 < age.years[1] /\ age.years[1] < 142
    /\ 0 <= age.days[1] /\ age.days[1] < MAX_DAYS

IsDigit(c) == \E i \in 1..10 : Digits[i] = c

\* the longest run of digits at the start of a string: what \d+ matches
RECURSIVE LeadingDigits(_)
LeadingDigits(string) ==
    IF string = << >> \/ ~IsDigit(Head(string)) THEN << >>
    ELSE <<Head(string)>> \o LeadingDigits(Tail(string))

\* Age.parse_from_string: re.match of STRING_FORMAT = (\d+):(\d+) at the
\* start of the string, then the validity of the Age
Age_parse_from_string(string) ==
    LET years == LeadingDigits(string)
        rest == SubSeq(string, Len(years) + 1, Len(string))
        days == IF rest # << >> /\ Head(rest) = ":" THEN LeadingDigits(Tail(rest)) ELSE << >>
    IN  IF years = << >> \/ days = << >>
        THEN [exc |-> "ValueError", ret |-> None]
        ELSE LET age == Age(Some(int(years)), Some(int(days)))
             IN  IF AgeIsValid(age)
                 THEN [exc |-> NoExc, ret |-> Some(age)]
                 ELSE [exc |-> "ValueError", ret |-> None]

\* the is_undefined_fn that Player.fill_from_cli_or_user passes for an attribute
is_undefined_fn(attribute_name, attribute) ==
    IF attribute_name = "age" THEN ~AgeIsValid(attribute) ELSE attribute = None

\* the parse_from_string it passes; int (for tsi) gets no string from the
\* command line, whose --tsi has type=int
parse_from_string(attribute_name, string) ==
    IF attribute_name = "age" THEN Age_parse_from_string(string)
    ELSE IF string # << >> /\ \A i \in 1..Len(string) : IsDigit(string[i])
    THEN [exc |-> NoExc, ret |-> Some(Some(int(string)))]
    ELSE [exc |-> "ValueError", ret |-> None]

\* a value of the args namespace: a str (its characters) or another object
CliString(string) == [is_str |-> TRUE, string |-> string, value |-> None]
CliObject(value) == [is_str |-> FALSE, string |-> << >>, value |-> Some(value)]

\* what _ensure_valid_value gives: the attribute after the call, whether
\* the user was prompted, and the exception
EnsureOutcome(attribute, prompted, e) ==
    [attribute |-> attribute, prompted |-> prompted, exc |-> e]

\* variant: the command line is used only when nothing was scraped
ensure_valid_value_scraped_first(attribute_name, attribute, cli_value, from_user) ==
    IF ~is_undefined_fn(attribute_name, attribute)
    THEN EnsureOutcome(attribute, FALSE, NoExc)
    ELSE IF cli_value = None
    THEN IF from_user.exc # NoExc
         THEN EnsureOutcome(attribute, TRUE, from_user.exc)
         ELSE EnsureOutcome(from_user.ret[1], TRUE, NoExc)
    ELSE IF cli_value[1].is_str
    THEN LET parsed == parse_from_string(attribute_name, cli_value[1].string)
         IN  IF parsed.exc # NoExc
             THEN EnsureOutcome(attribute, FALSE, parsed.exc)
             ELSE EnsureOutcome(parsed.ret[1], FALSE, NoExc)
    ELSE EnsureOutcome(cli_value[1].value[1], FALSE, NoExc)

\* self._ensure_valid_value(attribute_name, args, is_undefined_fn,
\* parse_from_string, choices): `attribute` is getattr(self, attribute_name),
\* `cli_value` is getattr(args, attribute_name) and `from_user` is what
\* common.get_from_user gives when it is called
ensure_valid_value(attribute_name, attribute, cli_value, from_user) ==
    IF cli_value = None
    THEN IF is_undefined_fn(attribute_name, attribute)
         THEN IF from_user.exc # NoExc
              THEN EnsureOutcome(attribute, TRUE, from_user.exc)
              ELSE EnsureOutcome(from_user.ret[1], TRUE, NoExc)
         ELSE EnsureOutcome(attribute, FALSE, NoExc)
    ELSE IF cli_value[1].is_str
    THEN LET parsed == parse_from_string(attribute_name, cli_value[1].string)
         IN  IF parsed.exc # NoExc
             THEN EnsureOutcome(attribute, FALSE, parsed.exc)
             ELSE EnsureOutcome(parsed.ret[1], FALSE, NoExc)
    ELSE EnsureOutcome(cli_value[1].value[1], FALSE, NoExc)

\* an age given as a string: strings that are ages, and strings that are not
AgeStrings ==
    {<<"1", "7", ":", "5">>, <<"2", "1", ":", "0", "x">>, <<"1", "6", ":", "5">>,
     <<"1", "7", ":", "1", "1", "2">>, <<"1", "7">>, <<":", "5">>}

\* the calls of Player.fill_from_cli_or_user for age and tsi: the scraped
\* attribute, the value of the args namespace (for age a string, or the Age
\* that the type of --age in add_player.py has made of it; for tsi an int),
\* and the answer of the user if asked
EnsureCalls ==
    {Call("ensure_valid_value", <<"age", attribute, cli_value, from_user>>) :
        attribute \in {Age(None, None), Age(Some(30), Some(111)), Age(Some(16), Some(3))},
        cli_value \in {None} \cup {Some(CliString(string)) : string \in AgeStrings},
        from_user \in {[exc |-> "UserInputWasCancelled", ret |-> None],
                       [exc |-> NoExc, ret |-> Some(Age(Some(19), Some(7)))]}}
    \cup
    {Call("ensure_valid_value", <<"age", attribute, cli_value, from_user>>) :
        attribute \in {Age(None, None), Age(Some(30), Some(111))},
        cli_value \in {Some(CliObject(Age(Some(18), Some(2))))},
        from_user \in {[exc |-> NoExc, ret |-> Some(Age(Some(19), Some(7)))]}}
    \cup
    {Call("ensure_valid_value", <<"tsi", attribute, cli_value, from_user>>) :
        attribute \in {None, Some(1234)},
        cli_value \in {None, Some(CliObject(Some(0))), Some(CliObject(Some(5000)))},
        from_user \in {[exc |-> "UserInputWasCancelled", ret |-> None],
                       [exc |-> NoExc, ret |-> Some(Some(990))]}}

Call_ensure_valid_value ==
    /\ call # None /\ call.fn = "ensure_valid_value"
    /\ ret = None
    /\ ret' = Some(ensure_valid_value(call.args[1], call.args[2], call.args[3],
                                      call.args[4]))
    /\ UNCHANGED <<call>>
    /\ UNCHANGED hattrick_vars
    /\ UNCHANGED find_vars

-----------------------------------------------------------------------------
(* common.get_from_user *)

\* bound: how many times the user answers the prompt in a run
MaxInputs == 3

\* what input(prompt) gives: a line typed, or KeyboardInterrupt
Typed(string) == [interrupt |-> FALSE, string |-> string]
Interrupt == [interrupt |-> TRUE, string |-> << >>]

\* what get_from_user gives: the exception or the value, how often input()
\* was called, how often the hint was printed, and whether the function is
\* still waiting in input() when the user has typed nothing more
UserOutcome(e, r, prompts, hints, waiting) ==
    [exc |-> e, ret |-> r, prompts |-> prompts, hints |-> hints, waiting |-> waiting]

\* the while loop of get_from_user when the user answers the prompts with
\* `inputs`: one iteration per input
RECURSIVE ask_until_valid(_, _, _, _)
ask_until_valid(named_thing, inputs, prompts, hints) ==
    IF inputs = << >> THEN UserOutcome(NoExc, None, prompts + 1, hints, TRUE)
    ELSE IF Head(inputs).interrupt
    THEN UserOutcome("UserInputWasCancelled", None, prompts + 1, hints, FALSE)
    ELSE LET value == parse_from_string(named_thing, Head(inputs).string)
         IN  IF value.exc \in {"TypeError", "ValueError"} \/ value.ret = None
             THEN ask_until_valid(named_thing, Tail(inputs), prompts + 1, hints + 1)
             ELSE UserOutcome(NoExc, value.ret, prompts + 1, hints, FALSE)

\* variant: an input that does not parse ends the function with the error
get_from_user_once(named_thing, inputs) ==
    IF inputs = << >> THEN UserOutcome(NoExc, None, 1, 0, TRUE)
    ELSE IF Head(inputs).interrupt
    THEN UserOutcome("UserInputWasCancelled", None, 1, 0, FALSE)
    ELSE LET value == parse_from_string(named_thing, Head(inputs).string)
         IN  IF value.exc # NoExc
             THEN UserOutcome(value.exc, None, 1, 0, FALSE)
             ELSE UserOutcome(NoExc, value.ret, 1, 0, FALSE)

\* get_from_user(named_thing, parse_from_string, choices)
get_from_user(named_thing, inputs) == ask_until_valid(named_thing, inputs, 0, 0)

\* what the user can type for an attribute
InputsFor(named_thing) ==
    {Interrupt}
    \cup {Typed(string) :
            string \in IF named_thing = "age"
                       THEN {<<"1", "7", ":", "5">>, <<"1", "7">>}
                       ELSE {<<"4", "2">>, <<"4", "x">>, << >>}}

RECURSIVE InputSequences(_, _)
InputSequences(named_thing, n) ==
    IF n = 0 THEN {<< >>}
    ELSE LET shorter == InputSequences(named_thing, n - 1)
         IN  shorter \cup {Append(inputs, i) : inputs \in {x \in shorter : Len(x) = n - 1},
                                               i \in InputsFor(named_thing)}

GetFromUserCalls ==
    {Call("get_from_user", <<named_thing, inputs>>) :
        named_thing \in {"age"}, inputs \in InputSequences("age", MaxInputs)}
    \cup {Call("get_from_user", <<named_thing, inputs>>) :
            named_thing \in {"tsi"}, inputs \in InputSequences("tsi", MaxInputs)}

Call_get_from_user ==
    /\ call # None /\ call.fn = "get_from_user"
    /\ ret = None
    /\ ret' = Some(get_from_user(call.args[1], call.args[2]))
    /\ UNCHANGED <<call>>
    /\ UNCHANGED hattrick_vars
    /\ UNCHANGED find_vars

\* Hattrick(*args): __init__ takes the currency only
Hattrick(args) ==
    IF Len(args) > 1
    THEN [exc |-> "TypeError", self |-> None]
    ELSE [exc |-> NoExc,
          self |-> Some([session |-> None, server_url |-> None, server_id |-> None,
                         team |-> None, language |-> None, logged_in |-> FALSE])]

\* ht = Hattrick(*args) followed by ht.__enter__() of `with ht`
construct_and_enter(args, landing_page, prompt, login_response, logout_page) ==
    LET ht == Hattrick(args)
    IN  IF ht.exc # NoExc
        THEN [exc |-> ht.exc, log |-> << >>, self |-> None]
        ELSE LET out == enter(ht.self[1], LOGIN_FORM_initial, << >>, landing_page, prompt,
                              login_response, logout_page)
             IN  [exc |-> out.exc, log |-> out.log, self |-> Some(out.self)]

USER_NAME_FIELD == "ctl00$CPContent$ucLogin$txtUserName"

\* the arguments of the constructor: the currency alone, or the currency with
\* args.user and args.password of the command line (None when not given)
ConstructorArgs ==
    {<<"eFt">>}
    \cup {<<"eFt", user, password>> : user \in {None, Some("kispest_manager")},
                                      password \in {None, Some("from the command line")}}

\* the start of _update, _add_player and main: construct, then enter
ConstructCalls ==
    {Call("construct_and_enter", <<args, landing_page, prompt, login_response>>) :
        args \in ConstructorArgs, landing_page \in LandingPages, prompt \in Prompts,
        login_response \in {page \in LoginResponses : page.text = {}}}

Call_construct_and_enter ==
    /\ call # None /\ call.fn = "construct_and_enter"
    /\ ret = None
    /\ \E logout_page \in InnerPages :
          ret' = Some(construct_and_enter(call.args[1], call.args[2], call.args[3],
                                          call.args[4], logout_page))
    /\ UNCHANGED <<call>>
    /\ UNCHANGED hattrick_vars
    /\ UNCHANGED find_vars

\* variant: the constructor accepts any pair
NationalPlayerStatus_unchecked(is_national_team_player_prospect, is_national_team_player) ==
    [exc |-> NoExc,
     ret |-> Some([is_national_team_player_prospect |-> is_national_team_player_prospect,
                   is_national_team_player |-> is_national_team_player])]

\* NationalPlayerStatus.__init__
NationalPlayerStatus(is_national_team_player_prospect, is_national_team_player) ==
    IF is_national_team_player_prospect /\ is_national_team_player
    THEN [exc |-> "ValueError", ret |-> None]
    ELSE [exc |-> NoExc,
          ret |-> Some([is_national_team_player_prospect |-> is_national_team_player_prospect,
                        is_national_team_player |-> is_national_team_player])]

\* variant: the status asks for another page although the marker is there
parse_national_team_player_status_asking_again(self, lg, player_page) ==
    LET nt_pattern == resolve(DICTIONARY, "nt", self.language)
        nt_prospect_pattern == resolve(DICTIONARY, "nt_prospect", self.language)
        lg1 == Append(lg, Request("get", self.server_url, "Club/NationalTeam", None))
    IN  IF nt_pattern.exc # NoExc THEN [log |-> lg, exc |-> nt_pattern.exc, ret |-> None]
        ELSE IF nt_prospect_pattern.exc # NoExc
        THEN [log |-> lg1, exc |-> nt_prospect_pattern.exc, ret |-> None]
        ELSE LET status == NationalPlayerStatus(
                               nt_prospect_pattern.ret[1] \in player_page.text,
                               nt_pattern.ret[1] \in player_page.text)
             IN  [log |-> lg1, exc |-> status.exc, ret |-> status.ret]

\* self._parse_national_team_player_status(player_page), with the requests
\* made so far in `lg`
parse_national_team_player_status(self, lg, player_page) ==
    LET nt_pattern == resolve(DICTIONARY, "nt", self.language)
        nt_prospect_pattern == resolve(DICTIONARY, "nt_prospect", self.language)
    IN  IF nt_pattern.exc # NoExc THEN [log |-> lg, exc |-> nt_pattern.exc, ret |-> None]
        ELSE IF nt_prospect_pattern.exc # NoExc
        THEN [log |-> lg, exc |-> nt_prospect_pattern.exc, ret |-> None]
        ELSE LET status == NationalPlayerStatus(
                               nt_prospect_pattern.ret[1] \in player_page.text,
                               nt_pattern.ret[1] \in player_page.text)
             IN  [log |-> lg, exc |-> status.exc, ret |-> status.ret]

NtMarker == DICTIONARY["nt"]["hungarian"][1]
NtProspectMarker == DICTIONARY["nt_prospect"]["hungarian"][1]

\* the status step of _download_player_info_into: the player page has been
\* requested, and it has any of the two markers
NationalStatusCalls ==
    {Call("parse_national_team_player_status",
          <<SelfLoggedIn(lang),
            <<Request("get", SelfLoggedIn(lang).server_url,
                      "/Club/Players/Player.aspx?playerId=417&x", None)>>,
            [ok |-> TRUE, text |-> text]>>) :
        lang \in {"hungarian", "english"}, text \in SUBSET {NtMarker, NtProspectMarker}}

Call_parse_national_team_player_status ==
    /\ call # None /\ call.fn = "parse_national_team_player_status"
    /\ ret = None
    /\ ret' = Some(parse_national_team_player_status(call.args[1], call.args[2],
                                                     call.args[3]))
    /\ UNCHANGED <<call>>
    /\ UNCHANGED hattrick_vars
    /\ UNCHANGED find_vars

Call_open_link ==
    /\ call # None /\ call.fn = "open_link"
    /\ ret = None
    /\ ret' = Some(open_link(call.args[1], << >>, call.args[2], call.args[3], call.args[4],
                             call.args[5], call.args[6]))
    /\ UNCHANGED <<call>>
    /\ UNCHANGED hattrick_vars
    /\ UNCHANGED find_vars

Call_string_to_int ==
    /\ call # None /\ call.fn = "string_to_int"
    /\ ret = None
    /\ ret' = Some(string_to_int(call.args[1]))
    /\ UNCHANGED <<call>>
    /\ UNCHANGED hattrick_vars
    /\ UNCHANGED find_vars

Call_translate_to ==
    /\ call # None /\ call.fn = "translate_to"
    /\ ret = None
    /\ ret' = Some(translate_to(call.args[1], Some(call.args[2])))
    /\ UNCHANGED <<call>>
    /\ UNCHANGED hattrick_vars
    /\ UNCHANGED find_vars

Call_resolve ==
    /\ call # None /\ call.fn = "resolve"
    /\ ret = None
    /\ ret' = Some(resolve(DICTIONARY, call.args[1], Some(call.args[2])))
    /\ UNCHANGED <<call>>
    /\ UNCHANGED hattrick_vars
    /\ UNCHANGED find_vars

Returned(fn) == call # None /\ call.fn = fn /\ ret # None

\* C14: the integer of a string of digits and whitespace is the integer of
\* its digits alone, wherever the whitespace stands.
RECURSIVE IntegerOfDigitsAlone(_)
IntegerOfDigitsAlone(raw) ==
    IF raw = << >> THEN 0
    ELSE LET front == SubSeq(raw, 1, Len(raw) - 1)
             c == raw[Len(raw)]
         IN  IF c \in {" ", "\t"} THEN IntegerOfDigitsAlone(front)
             ELSE 10 * IntegerOfDigitsAlone(front) + (IF c = "1" THEN 1 ELSE 2)

C14_WhitespaceRemovedBeforeConversion ==
    (/\ Returned("string_to_int")
     /\ \E i \in 1..Len(call.args[1]) : call.args[1][i] \in {"1", "2"}) =>
        ret[1] = [exc |-> NoExc, ret |-> Some(IntegerOfDigitsAlone(call.args[1]))]

\* "12 21" gave 1221
C14_Witness ==
    /\ Returned("string_to_int")
    /\ call.args[1] = <<"1", "2", " ", "2", "1">>
    /\ ret[1].ret = Some(1221)

\* C15: the error of translate_to for an empty slot lists exactly the
\* languages that have a definition.
C15_ErrorListsDefinedLanguages ==
    (/\ Returned("translate_to")
     /\ call.args[1][call.args[2]] = None) =>
        /\ ret[1].exc = "NoDefinitionInThisLanguageError"
        /\ ret[1].available =
              {l \in {"hungarian", "english"} : call.args[1][l] # None}

\* C16: a field absent from the dictionary fails with KeyError, an empty
\* slot of a supported language with NoDefinitionInThisLanguageError, a
\* defined slot is returned, and an unsupported language name gives an error.
C16_ThreeOutcomes ==
    Returned("resolve") =>
        LET key == call.args[1]
            lang == call.args[2]
        IN  /\ key \notin DOMAIN DICTIONARY => ret[1].exc = "KeyError"
            /\ (key \in DOMAIN DICTIONARY /\ lang \in {"hungarian", "english"}) =>
                  IF DICTIONARY[key][lang] = None
                  THEN ret[1].exc = "NoDefinitionInThisLanguageError"
                  ELSE /\ ret[1].exc = NoExc
                       /\ ret[1].ret = DICTIONARY[key][lang]
            /\ lang \notin {"hungarian", "english"} =>
                  /\ ret[1].exc # NoExc
                  /\ ret[1].ret = None

\* C17: in a logged-in session a response with a success status whose body
\* matches the app_error pattern of the session language makes _open_link
\* raise the error of _raise_and_try_dumping_page_error; it is not returned.
C17_ApplicationErrorRaised ==
    (/\ Returned("open_link")
     /\ call.args[1].logged_in
     /\ call.args[6].ok
     /\ DICTIONARY["app_error"][call.args[1].language[1]] # None
     /\ DICTIONARY["app_error"][call.args[1].language[1]][1] \in call.args[6].text) =>
        /\ ret[1].exc = raise_and_try_dumping_page_error
        /\ ret[1].ret = None

\* C18: while logged_in is False, _open_link does not resolve the app_error
\* pattern, and a response with a success status is returned whatever its
\* body contains.
C18_NoCheckBeforeLogin ==
    (Returned("open_link") /\ ~call.args[1].logged_in) =>
        /\ ~ret[1].consulted
        /\ call.args[6].ok => (ret[1].exc = NoExc /\ ret[1].ret = Some(call.args[6]))

\* the login POST was answered with a page that shows the error banner
C18_Witness ==
    /\ Returned("open_link")
    /\ ~call.args[1].logged_in
    /\ call.args[2] = LOGIN_PAGE
    /\ call.args[6].ok
    /\ "Alkalmazashiba" \in call.args[6].text
    /\ ret[1].ret = Some(call.args[6])

\* C19: a response without a success status makes _open_link raise the HTTP
\* error, before the app_error pattern is resolved, also when its body shows
\* the error banner.
C19_HttpErrorFirst ==
    (Returned("open_link") /\ ~call.args[6].ok) =>
        /\ ret[1].exc = "HTTPError"
        /\ ~ret[1].consulted

\* a logged-in session got a failure status together with the error banner
C19_Witness ==
    /\ Returned("open_link")
    /\ call.args[1].logged_in
    /\ ~call.args[6].ok
    /\ "Alkalmazashiba" \in call.args[6].text
    /\ ret[1].exc = "HTTPError"

\* the continuation POSTs of a log
Posts(lg) == {i \in 1..Len(lg) : lg[i].ev = "request" /\ lg[i].method = "post"}

\* C20 as claimed: one continuation POST when the first response has the
\* marker, none when it has not; after a continuation the search runs over
\* the answer to the POST.
C20_OnePostWhenMarkerPresent ==
    (Returned("parse_player_sell_base_price") /\ ret[1].first # None) =>
        /\ Cardinality(Posts(ret[1].log)) =
              (IF FURTHER_TRANSFERS_LINK_ID \in ret[1].first[1].text THEN 1 ELSE 0)
        /\ (Posts(ret[1].log) # {} /\ ret[1].page # None) => ret[1].page = Some(call.args[4])

\* C20: one continuation POST when the first response has the marker and
\* all three dynamic hidden fields, none otherwise; after a continuation the
\* search runs over the answer to the POST, without one over the first
\* response.
C20_OnePostWhenMarkerPresentAndHarvested ==
    (Returned("parse_player_sell_base_price") /\ ret[1].first # None) =>
        LET first == ret[1].first[1]
            continued == /\ FURTHER_TRANSFERS_LINK_ID \in first.text
                         /\ DynamicKeys \subseteq DOMAIN first.hidden
        IN  /\ Cardinality(Posts(ret[1].log)) = (IF continued THEN 1 ELSE 0)
            /\ ret[1].page # None =>
                  ret[1].page = (IF continued THEN Some(call.args[4]) ELSE Some(first))
            /\ (continued /\ ret[1].page # None /\ call.args[4].lines # << >>) =>
                  ret[1].ret = Some(12)
            /\ (FURTHER_TRANSFERS_LINK_ID \notin first.text /\ first.lines # << >>) =>
                  ret[1].ret = Some(42)

\* the first response had the marker and the price 42, the answer to the one
\* continuation POST had the price 12, and 12 was returned
C20_Witness ==
    /\ Returned("parse_player_sell_base_price")
    /\ ret[1].first # None
    /\ FURTHER_TRANSFERS_LINK_ID \in ret[1].first[1].text
    /\ ret[1].first[1].lines # << >>
    /\ Cardinality(Posts(ret[1].log)) = 1
    /\ ret[1].ret = Some(12)

\* C21: every continuation POST carries, for each of the three dynamic
\* hidden fields, the value found on the first response of this call,
\* whatever the shared form held before; when one of the fields is not
\* found on that page, no continuation POST is issued.
C21_PostCarriesValuesOfCurrentPage ==
    Returned("parse_player_sell_base_price") =>
        /\ \A i \in Posts(ret[1].log) :
              /\ ret[1].first # None
              /\ \A key \in DynamicKeys :
                    /\ key \in DOMAIN ret[1].first[1].hidden
                    /\ ret[1].log[i].data[1][key] = ret[1].first[1].hidden[key]
        /\ (ret[1].first # None /\ ~(DynamicKeys \subseteq DOMAIN ret[1].first[1].hidden))
              => Posts(ret[1].log) = {}

\* a continuation was posted by a call that found values of an earlier page
\* in the shared form
C21_Witness ==
    /\ Returned("parse_player_sell_base_price")
    /\ Posts(ret[1].log) # {}
    /\ DynamicKeys \subseteq DOMAIN call.args[5]
    /\ \A key \in DynamicKeys : call.args[5][key] # ret[1].first[1].hidden[key]

\* the pieces of a message, as a set
Pieces(message) == {message[i] : i \in 1..Len(message)}

DumpHint == " this page dump might help: '"

\* C22: _raise_and_try_dumping_page_error always raises RuntimeError with
\* the base message, and with the regex when one is given, whether the dump
\* was written or not; the message names the dump file exactly when the dump
\* was written, and the exception of a failed dump is never the outcome.
C22_OriginalErrorAlwaysRaised ==
    Returned("raise_and_try_dumping_page_error") =>
        /\ ret[1].exc = "RuntimeError"
        /\ ret[1].message[1] = call.args[1]
        /\ call.args[4] # None => call.args[4][1] \in Pieces(ret[1].message)
        /\ call.args[4] = None => Len(ret[1].message) \in {1, 6}
        /\ DumpHint \in Pieces(ret[1].message) <=> call.args[3] = NoExc
        /\ DumpHint \in Pieces(ret[1].message) <=> ret[1].written # {}

\* the dump failed, and the error with the base message and the regex was
\* raised without the hint
C22_Witness ==
    /\ Returned("raise_and_try_dumping_page_error")
    /\ call.args[3] = "UnicodeEncodeError"
    /\ call.args[4] # None
    /\ ret[1].exc = "RuntimeError"
    /\ ret[1].message = <<call.args[1], " regex: '", call.args[4][1], "'">>

\* C23: download_team returns a Team only with both finance fields set, and
\* when it raises, the Team of the session holds none of the newly scraped
\* fields.
C23_NoPartialTeam ==
    Returned("download_team") =>
        /\ ret[1].exc = NoExc =>
              /\ ret[1].ret # None
              /\ ret[1].ret[1].finance.total # None
              /\ ret[1].ret[1].finance.board_reserves # None
        /\ ret[1].exc # NoExc =>
              /\ ret[1].ret = None
              /\ ret[1].self.team = call.args[1].team

\* C25: when a user name and a password are given to the constructor, the
\* session is constructed, the login POST carries them, and getpass() is not
\* called; getpass() is called only when no password was given.
C25_SuppliedCredentialsUsed ==
    Returned("construct_and_enter") =>
        LET args == call.args[1]
            lg == ret[1].log
            prompted == \E i \in 1..Len(lg) : lg[i].ev = "getpass()"
            supplied == Len(args) = 3 /\ args[2] # None /\ args[3] # None
        IN  /\ supplied =>
                  /\ ret[1].exc # "TypeError"
                  /\ ~prompted
                  /\ \A i \in Posts(lg) :
                        /\ lg[i].data[1][USER_NAME_FIELD] = args[2][1]
                        /\ lg[i].data[1][PASSWORD_FIELD] = args[3][1]
            /\ prompted => (Len(args) < 3 \/ args[3] = None)

\* C27: in read-only mode update_team, update_player and add_player write
\* nothing and return normally; otherwise the body runs exactly once.
C27_ReadOnlySkipsAndReturns ==
    Returned("excel_method") =>
        /\ call.args[2] => (ret[1].writes = << >> /\ ret[1].runs = 0 /\ ret[1].exc = NoExc)
        /\ ~call.args[2] => ret[1].runs = 1

\* C28: a command-line value, parsed when it is a string, becomes the
\* attribute whatever was scraped; without one a defined scraped value is
\* left as it is and nobody is asked; the user is asked only when there is
\* no command-line value and the scraped value is undefined.
C28_CommandLineTakesPrecedence ==
    Returned("ensure_valid_value") =>
        LET attribute_name == call.args[1]
            attribute == call.args[2]
            cli_value == call.args[3]
            undefined == is_undefined_fn(attribute_name, attribute)
        IN  /\ (cli_value # None /\ cli_value[1].is_str) =>
                  LET parsed == parse_from_string(attribute_name, cli_value[1].string)
                  IN  /\ ret[1].exc = parsed.exc
                      /\ parsed.exc = NoExc => ret[1].attribute = parsed.ret[1]
            /\ (cli_value # None /\ ~cli_value[1].is_str) =>
                  (ret[1].exc = NoExc /\ ret[1].attribute = cli_value[1].value[1])
            /\ (cli_value = None /\ ~undefined) =>
                  (ret[1].attribute = attribute /\ ret[1].exc = NoExc)
            /\ ret[1].prompted <=> (cli_value = None /\ undefined)

\* a valid scraped age was replaced by the age parsed from the command line
C28_Witness ==
    /\ Returned("ensure_valid_value")
    /\ call.args[1] = "age"
    /\ call.args[2] = Age(Some(30), Some(111))
    /\ call.args[3] # None
    /\ ret[1].exc = NoExc
    /\ ret[1].attribute = Age(Some(17), Some(5))
    /\ ~ret[1].prompted

\* this input ends the loop: the prompt is interrupted, or the line parses
Decides(named_thing, input) ==
    input.interrupt \/ parse_from_string(named_thing, input.string).exc = NoExc

\* C29: get_from_user ends at the first input that is an interrupt or that
\* parses: with UserInputWasCancelled for the interrupt, with the parsed
\* value otherwise; every input before it gets a hint and a new prompt, and
\* no other exception ends the function.
C29_CancelIsNotParseFailure ==
    Returned("get_from_user") =>
        LET named_thing == call.args[1]
            inputs == call.args[2]
            deciding == {i \in 1..Len(inputs) : Decides(named_thing, inputs[i])}
        IN  /\ ret[1].exc \in {NoExc, "UserInputWasCancelled"}
            /\ deciding = {} =>
                  /\ ret[1].waiting /\ ret[1].exc = NoExc /\ ret[1].ret = None
                  /\ ret[1].prompts = Len(inputs) + 1
                  /\ ret[1].hints = Len(inputs)
            /\ deciding # {} =>
                  LET first == CHOOSE i \in deciding : \A j \in deciding : i <= j
                  IN  /\ ~ret[1].waiting
                      /\ ret[1].prompts = first
                      /\ ret[1].hints = first - 1
                      /\ inputs[first].interrupt =>
                            (ret[1].exc = "UserInputWasCancelled" /\ ret[1].ret = None)
                      /\ ~inputs[first].interrupt =>
                            /\ ret[1].exc = NoExc
                            /\ ret[1].ret # None
                            /\ ret[1].ret =
                                  parse_from_string(named_thing, inputs[first].string).ret

\* a line that is not an age was followed by a line that is one
C29_Witness ==
    /\ Returned("get_from_user")
    /\ call.args[1] = "age"
    /\ Len(call.args[2]) >= 2
    /\ ~Decides("age", call.args[2][1])
    /\ ret[1].prompts = 2
    /\ ret[1].ret = Some(Age(Some(17), Some(5)))

\* C33: the status says national-team player exactly when the marker is on
\* the player page; with the marker there no further page is requested,
\* and a further request is made only for a page without the marker.
C33_SecondPageOnlyWithoutMarker ==
    Returned("parse_national_team_player_status") =>
        LET marked == NtMarker \in call.args[3].text
        IN  /\ ret[1].ret # None => ret[1].ret[1].is_national_team_player = marked
            /\ marked => ret[1].log = call.args[2]
            /\ ret[1].log # call.args[2] => ~marked

\* the marker was on the player page and the status was returned with the
\* one request of the player page in the log
C33_Witness ==
    /\ Returned("parse_national_team_player_status")
    /\ NtMarker \in call.args[3].text
    /\ ret[1].ret # None
    /\ ret[1].ret[1].is_national_team_player
    /\ Len(ret[1].log) = 1

\* C34: a status that is returned never has both flags; a player page with
\* both markers ends the parsing with ValueError instead of a status.
C34_NeverBothFlags ==
    Returned("parse_national_team_player_status") =>
        /\ ret[1].ret # None =>
              ~(/\ ret[1].ret[1].is_national_team_player
                /\ ret[1].ret[1].is_national_team_player_prospect)
        /\ (/\ {NtMarker, NtProspectMarker} \subseteq call.args[3].text
            /\ call.args[1].language = Some("hungarian")) =>
              (ret[1].exc = "ValueError" /\ ret[1].ret = None)

\* a page with both markers was parsed
C34_Witness ==
    /\ Returned("parse_national_team_player_status")
    /\ call.args[3].text = {NtMarker, NtProspectMarker}
    /\ ret[1].exc = "ValueError"

\* C35: when the last dated row of the player sheet carries today's date, a
\* call of update_player works on that row and adds none; otherwise it adds
\* exactly one row directly below, a copy of the previous row dated today;
\* any number of calls on one day add at most one row.
C35_IdempotentWithinADay ==
    (Returned("update_player_calls") /\ ret[1][1].row # 0) =>
        LET self == call.args[1]
            sheet == self.player_sheets["Player"]
            last == sheet[Len(sheet)]
            first == ret[1][1]
            after == first.self.player_sheets["Player"]
            final == ret[1][Len(ret[1])].self.player_sheets["Player"]
        IN  /\ last.A.day = self.today =>
                  /\ first.row = Len(sheet)
                  /\ Len(after) = Len(sheet)
            /\ last.A.day # self.today =>
                  /\ first.row = Len(sheet) + 1
                  /\ Len(after) = Len(sheet) + 1
                  /\ after[first.row].A = DateCell(self.today)
                  /\ after[first.row].format = last.format
            /\ Len(final) <= Len(sheet) + 1

\* C36: every call of monitored_players_names on an Excel object returns
\* the names of the player sheets that contain neither "$" nor "@", each
\* name once, whatever the number of calls made before.
C36_SameNamesOnEveryCall ==
    Returned("monitored_players_names_calls") =>
        \A k \in 1..Len(ret[1]) :
            ret[1][k].exc = NoExc =>
                LET names == ret[1][k].names
                    sheets == call.args[1].workbook[1]
                    active == {sheets[i].name : i \in
                                  {j \in 1..Len(sheets) :
                                      /\ is_player_sheet(sheets[j])
                                      /\ ~Contains(SOLD_PLAYER_MARKER, sheets[j].name)
                                      /\ ~Contains(NEW_PLAYER_MARKER, sheets[j].name)}}
                IN  /\ {names[i] : i \in 1..Len(names)} = active
                    /\ Len(names) = Cardinality(active)
                    /\ names = ret[1][1].names

InitCall ==
    /\ HattrickIdle
    /\ FindIdle
    /\ call \in StringToIntCalls \cup TranslateToCalls \cup ResolveCalls \cup OpenLinkCalls
                \cup SellBasePriceCalls \cup RaiseCalls \cup DownloadTeamCalls
                \cup ConstructCalls \cup ExcelCalls \cup EnsureCalls
                \cup GetFromUserCalls \cup NationalStatusCalls
                \cup UpdatePlayerCalls \cup MonitoredCalls
    /\ ret = None

NextCall ==
    \/ Call_string_to_int
    \/ Call_translate_to
    \/ Call_resolve
    \/ Call_open_link
    \/ Call_parse_player_sell_base_price
    \/ Call_raise_and_try_dumping_page_error
    \/ Call_download_team
    \/ Call_construct_and_enter
    \/ Call_excel_method
    \/ Call_ensure_valid_value
    \/ Call_get_from_user
    \/ Call_parse_national_team_player_status
    \/ Call_update_player_calls
    \/ Call_monitored_players_names_calls

SpecCall == InitCall /\ [][NextCall]_vars

====
